---- MODULE Spec2Model ----
(***************************************************************************)
(* Chat-me: the browser client of src/src/pages/Chat.tsx (second, current  *)
(* definition of the Chat component, lines 689-1775), several client       *)
(* sessions running it against one shared database (table messages) and    *)
(* its realtime layer (postgres_changes feeds and broadcast channels).     *)
(*                                                                         *)
(* Every async handler is split at its awaits: the part up to the await,   *)
(* the remote effect (the database commit or the broadcast), and the part  *)
(* that runs when the await resolves.                                      *)
(***************************************************************************)
EXTENDS Integers, Sequences, FiniteSets, TLC

\* ------------------------------------------------------------- bounds
MaxMsgs == 2      \* rows ever inserted into messages
MaxMsgOps == 3    \* user operations (clicks, submits) in one run of SpecMsg
MaxSeenOps == 3   \* user operations in one run of SpecSeen
MaxCallOps == 3   \* user operations in one run of SpecCall
MaxReactOps == 3  \* user operations in one run of SpecReact
MaxCalls == 2     \* calls ever started
MaxInviteOps == 3 \* user operations in one run of SpecInvite
MaxMemberOps == 3 \* write requests in one run of SpecMember
MaxUploadOps == 2 \* files chosen in one run of SpecUpload
MaxPresenceOps == 2 \* messages sent in one run of SpecPresence
MaxClock == 6     \* minutes that pass in one run
MaxTypingOps == 3 \* keystrokes and selections in one run of SpecTyping
MaxCreateOps == 3 \* chats started and messages sent in one run of SpecCreate
MaxDeliverOps == 3 \* selections, sends and repeated events in one run of SpecDeliver

\* ------------------------------------------------------------- universe
Null == "null"
Users == {"A", "B", "C"}
Sessions == {"a1", "b1", "b2", "c1"}
Convs == {"X", "Y", "Z", "W", "N"}
Emojis == {"heart", "thumb"}

\* the signed-in user of a browser session (useAuth)
UserOf(s) == CASE s = "a1" -> "A" [] s = "b1" -> "B" [] s = "b2" -> "B" [] OTHER -> "C"

\* rows of conversation_participants: X and Z are direct chats, Y is a group,
\* W is a group that has A as its only member, N is not created yet
InitParticipants == [c \in Convs |->
    CASE c = "X" -> {"A", "B"} [] c = "Y" -> {"A", "B", "C"} [] c = "Z" -> {"B", "C"}
      [] c = "W" -> {"A"} [] OTHER -> {}]

\* rows of conversations at the start: id and is_group
InitConversations == {[id |-> "X", is_group |-> FALSE], [id |-> "Y", is_group |-> TRUE],
                      [id |-> "Z", is_group |-> FALSE], [id |-> "W", is_group |-> TRUE]}

\* fixed order in which a participants array lists users
UserRank(u) == CASE u = "A" -> 1 [] u = "B" -> 2 [] OTHER -> 3

RECURSIVE SetToSeq(_)
SetToSeq(S) ==
    IF S = {} THEN <<>>
    ELSE LET u == CHOOSE x \in S : \A y \in S : UserRank(x) <= UserRank(y)
         IN <<u>> \o SetToSeq(S \ {u})

SeqToSet(q) == {q[i] : i \in DOMAIN q}

\* q without its i-th element
RemoveAt(q, i) == SubSeq(q, 1, i - 1) \o SubSeq(q, i + 1, Len(q))

\* ------------------------------------------------------------- records
NoRow == [id |-> 0, conversation_id |-> Null, sender_id |-> Null, content |-> Null,
          message_type |-> Null, reactions |-> <<>>, seen_by |-> <<>>, created_at |-> 0]

NoCall == [roomUrl |-> 0, caller |-> Null, conversationId |-> Null, callId |-> 0]

NoReq == [stage |-> "idle"]

VARIABLES
    \* database
    dbMessages,          \* table messages, rows in commit order
    nextId,              \* next message id
    now,                 \* database clock (created_at default now()), one
                         \* instant per insert
    participants,        \* conversation_participants: conversation -> users
    \* realtime layer
    subscription,        \* session -> conversation of its messages-<id> channel
    pgEvents,            \* session -> postgres_changes events not yet handled
    callEvents,          \* session -> calls-<user> broadcasts not yet handled
    callsSubscribed,     \* session has its calls-<user> channel (subscribeToCalls)
    \* React state of each session
    conversations,       \* conversations state: ids of the loaded conversations
    userProfile,         \* userProfile state is loaded
    selectedConversation,
    messages,
    isLoading,
    editingMessage,      \* editingMessage + editContent
    messageToDelete,
    incomingCall,
    showVideoCall,
    videoCallUrl,
    \* handlers suspended at an await, pending timers
    insertHandlers,      \* INSERT handlers awaiting the sender's profile
    sendReq, reactReq, editReq, deleteReq, seenReq, fetchReq,
    callLoop,            \* send loop of startVideoCall / endCall
    timers,              \* pending 30 s setTimeout callbacks, oldest first
    nextCall,            \* source of fresh call ids / room names
    \* outputs
    errors,              \* console.error calls of each session
    toasts,              \* "Missed Call" toasts of each session, per call id
    \* history
    writeLog,            \* every database write request, in commit order
    callLog,             \* call events that took effect
    activeCall,          \* the call a session's video view belongs to
    ops,                 \* user operations (clicks, submits) left in this run
    \* database and storage, continued
    dbConversations,     \* table conversations: rows [id, is_group]
    lastSeen,            \* profiles.last_seen of each user, in minutes
    clock,               \* wall clock, in minutes
    storage,             \* objects of the bucket chat-images
    \* typing-<id> broadcast channels
    typingSub,           \* session -> conversation of its subscribed typing channel
    typingEvents,        \* session -> typing broadcasts not yet handled
    \* React state and refs, continued
    onlineUsers,
    typingUsers,
    typingTimeoutRef,    \* id of the timer last set by handleInputChange (0: none)
    typingTimers,        \* pending 2 s timers of handleInputChange: [id, conv]
    \* handlers suspended at an await, continued
    uploadReq, onlineReq, createReq,
    \* history, continued
    uploadLog            \* the files chosen in the file input, with the outcome

dbVars == <<dbMessages, nextId, now, participants>>
rtVars == <<subscription, pgEvents, callEvents, callsSubscribed>>
uiVars == <<conversations, userProfile, selectedConversation, messages, isLoading,
            editingMessage, messageToDelete, incomingCall, showVideoCall, videoCallUrl>>
reqVars == <<insertHandlers, sendReq, reactReq, editReq, deleteReq, seenReq, fetchReq,
             callLoop, timers, nextCall>>
outVars == <<errors, toasts>>
histVars == <<writeLog, callLog, activeCall, ops>>
chanVars == <<typingSub, typingEvents>>
extVars == <<dbConversations, lastSeen, clock, storage, onlineUsers, typingUsers,
             typingTimeoutRef, typingTimers, uploadReq, onlineReq, createReq,
             uploadLog>>
vars == <<dbVars, rtVars, uiVars, reqVars, outVars, histVars, chanVars, extVars>>


\* ------------------------------------------------------------- database
HasRow(id) == \E i \in DOMAIN dbMessages : dbMessages[i].id = id
RowIndex(id) == CHOOSE i \in DOMAIN dbMessages : dbMessages[i].id = id
RowOf(id) == IF HasRow(id) THEN dbMessages[RowIndex(id)] ELSE NoRow

\* postgres_changes: one event to every session whose channel filters on conv
Fanout(q, ev, conv) ==
    [s \in Sessions |-> IF subscription[s] = conv THEN Append(q[s], ev) ELSE q[s]]

LogEntry(kind, s, before, after, arg) ==
    [kind |-> kind, by |-> s, before |-> before, after |-> after, arg |-> arg]

\* supabase.from('messages').insert({...}); reactions is NULL and seen_by '[]'
\* by the column defaults, both read as [] by the client
\* created_at is the instant of the database clock, which has moved on by
\* `tick` when the next insert comes
DbInsertAt(s, conv, content, type, tick) ==
    LET row == [id |-> nextId, conversation_id |-> conv, sender_id |-> UserOf(s),
                content |-> content, message_type |-> type, reactions |-> <<>>,
                seen_by |-> <<>>, created_at |-> now]
    IN /\ dbMessages' = Append(dbMessages, row)
       /\ nextId' = nextId + 1
       /\ now' = now + tick
       /\ pgEvents' = Fanout(pgEvents, [type |-> "INSERT", row |-> row], conv)
       /\ writeLog' = Append(writeLog, LogEntry("insert", s, NoRow, row, Null))

DbInsert(s, conv, content, type) == DbInsertAt(s, conv, content, type, 1)

\* supabase.from('messages').update(patch).eq('id', id): the patched row, or no
\* row changed (and no error) when the id is gone
DbUpdate(s, id, kind, new, arg) ==
    IF HasRow(id)
    THEN /\ dbMessages' = [dbMessages EXCEPT ![RowIndex(id)] = new]
         /\ pgEvents' = Fanout(pgEvents, [type |-> "UPDATE", row |-> new],
                               new.conversation_id)
         /\ writeLog' = Append(writeLog, LogEntry(kind, s, RowOf(id), new, arg))
         /\ UNCHANGED <<nextId, now>>
    ELSE /\ writeLog' = Append(writeLog, LogEntry(kind, s, NoRow, NoRow, arg))
         /\ UNCHANGED <<dbMessages, pgEvents, nextId, now>>

\* supabase.from('messages').delete().eq('id', id)
DbDelete(s, id) ==
    IF HasRow(id)
    THEN /\ dbMessages' = RemoveAt(dbMessages, RowIndex(id))
         /\ pgEvents' = Fanout(pgEvents, [type |-> "DELETE", row |-> RowOf(id)],
                               RowOf(id).conversation_id)
         /\ writeLog' = Append(writeLog, LogEntry("delete", s, RowOf(id), NoRow, Null))
         /\ UNCHANGED <<nextId, now>>
    ELSE /\ writeLog' = Append(writeLog, LogEntry("delete", s, NoRow, NoRow, Null))
         /\ UNCHANGED <<dbMessages, pgEvents, nextId, now>>

\* a write request that the database refuses: nothing stored, nothing fanned out
DbFail(s, kind) ==
    /\ writeLog' = Append(writeLog, LogEntry("failed", s, NoRow, NoRow, kind))
    /\ UNCHANGED <<dbMessages, pgEvents, nextId, now>>

\* no write request at all
NoWrite == UNCHANGED <<dbMessages, pgEvents, nextId, now, writeLog>>

\* ------------------------------------------------------------- local lists
HasMsg(list, id) == \E i \in DOMAIN list : list[i].id = id
MsgOf(list, id) == list[CHOOSE i \in DOMAIN list : list[i].id = id]

\* prev.map(m => m.id === id ? {...m, reactions} : m)
SetLocalReactions(list, id, reactions) ==
    [i \in DOMAIN list |->
        IF list[i].id = id THEN [list[i] EXCEPT !.reactions = reactions] ELSE list[i]]

\* prev.map(msg => msg.id === id ? {...msg, content} : msg)
SetLocalContent(list, id, content) ==
    [i \in DOMAIN list |->
        IF list[i].id = id THEN [list[i] EXCEPT !.content = content] ELSE list[i]]

\* prev.filter(msg => msg.id !== id)
RemoveLocal(list, id) == SelectSeq(list, LAMBDA m : m.id # id)

\* UPDATE handler: content, reactions and seen_by are taken from payload.new
ApplyUpdate(list, new) ==
    [i \in DOMAIN list |->
        IF list[i].id = new.id
        THEN [list[i] EXCEPT !.content = new.content, !.reactions = new.reactions,
                             !.seen_by = new.seen_by]
        ELSE list[i]]

\* INSERT handler's setMessages: append unless the id is already listed
AppendAlways(list, row) == Append(list, row)
AppendIfNew(list, row) == IF HasMsg(list, row.id) THEN list ELSE Append(list, row)

\* addReaction's newReactions: drop the user's first entry for the emoji when
\* there is one, append an entry otherwise
ReactionIndex(reactions, u, e) ==
    IF \E i \in DOMAIN reactions : reactions[i] = [emoji |-> e, user_id |-> u]
    THEN CHOOSE i \in DOMAIN reactions :
            /\ reactions[i] = [emoji |-> e, user_id |-> u]
            /\ \A j \in 1..(i - 1) : reactions[j] # [emoji |-> e, user_id |-> u]
    ELSE 0

ToggleReaction(reactions, u, e) ==
    IF ReactionIndex(reactions, u, e) > 0
    THEN RemoveAt(reactions, ReactionIndex(reactions, u, e))
    ELSE Append(reactions, [emoji |-> e, user_id |-> u])

\* markMessagesAsSeen's select: id and seen_by of the conversation's rows that
\* the user did not send
UnreadOfAnySender(conv, u) ==
    SelectSeq(dbMessages, LAMBDA m : m.conversation_id = conv)
UnreadOf(conv, u) ==
    SelectSeq(dbMessages, LAMBDA m : m.conversation_id = conv /\ m.sender_id # u)

\* fetchMessages' select: the conversation's rows ordered by created_at alone;
\* rows with equal created_at come in an order the database chooses
ConvRows(conv) == SelectSeq(dbMessages, LAMBDA m : m.conversation_id = conv)

Orderings(rows) ==
    {q \in [1..Len(rows) -> SeqToSet(rows)] :
        /\ \A i, j \in 1..Len(rows) : i # j => q[i] # q[j]
        /\ \A i, j \in 1..Len(rows) : i < j => q[i].created_at <= q[j].created_at}

\* ------------------------------------------------------------- selection
\* useEffect([selectedConversation]): the cleanup unsubscribes the previous
\* messages channel and removes the previous typing channel; for a
\* conversation, fetchMessages, subscribeToMessages, subscribeToTyping (which
\* does nothing while the user profile is not loaded) and markMessagesAsSeen
\* start
SelectEffect(s, c) ==
    /\ selectedConversation' = [selectedConversation EXCEPT ![s] = c]
    /\ subscription' = [subscription EXCEPT ![s] = c]
    /\ pgEvents' = [pgEvents EXCEPT ![s] = <<>>]
    /\ fetchReq' = [fetchReq EXCEPT ![s] =
            IF c = Null THEN @ ELSE @ \cup {[stage |-> "select", conv |-> c, rows |-> <<>>]}]
    /\ seenReq' = [seenReq EXCEPT ![s] =
            IF c = Null THEN @ ELSE @ \cup {[stage |-> "select", conv |-> c, todo |-> <<>>]}]
    /\ typingSub' = [typingSub EXCEPT ![s] = IF userProfile[s] THEN c ELSE Null]
    /\ typingEvents' = [typingEvents EXCEPT ![s] = <<>>]

\* onClick of a conversation of the list, or of the mobile back button (Null)
SelectConversation(s, c) ==
    /\ c \in conversations[s] \cup {Null}
    /\ c # selectedConversation[s]
    /\ SelectEffect(s, c)
    /\ ops > 0 /\ ops' = ops - 1
    /\ UNCHANGED <<extVars, dbVars, callEvents, callsSubscribed, conversations, userProfile, messages, isLoading,
                   editingMessage, messageToDelete, incomingCall, showVideoCall,
                   videoCallUrl, insertHandlers, sendReq, reactReq, editReq, deleteReq,
                   callLoop, timers, nextCall, outVars, writeLog, callLog, activeCall>>

\* ------------------------------------------------------------- fetchMessages
FetchSelect(s, r) ==
    /\ r \in fetchReq[s] /\ r.stage = "select"
    /\ \E q \in Orderings(ConvRows(r.conv)) :
          fetchReq' = [fetchReq EXCEPT ![s] =
              (@ \ {r}) \cup {[stage |-> "profiles", conv |-> r.conv, rows |-> q]}]
    /\ UNCHANGED <<extVars, chanVars, dbVars, rtVars, uiVars, insertHandlers, sendReq, reactReq, editReq,
                   deleteReq, seenReq, callLoop, timers, nextCall, outVars, histVars>>

FetchDone(s, r) ==
    /\ r \in fetchReq[s] /\ r.stage = "profiles"
    /\ messages' = [messages EXCEPT ![s] = r.rows]
    /\ fetchReq' = [fetchReq EXCEPT ![s] = @ \ {r}]
    /\ UNCHANGED <<extVars, chanVars, dbVars, rtVars, conversations, userProfile, selectedConversation,
                   isLoading, editingMessage, messageToDelete, incomingCall,
                   showVideoCall, videoCallUrl, insertHandlers, sendReq, reactReq,
                   editReq, deleteReq, seenReq, callLoop, timers, nextCall, outVars,
                   histVars>>

\* ------------------------------------------------------------- markMessagesAsSeen
MarkSeenSelect(s, r) ==
    /\ r \in seenReq[s] /\ r.stage = "select"
    /\ seenReq' = [seenReq EXCEPT ![s] =
          IF UnreadOf(r.conv, UserOf(s)) = <<>> THEN @ \ {r}
          ELSE (@ \ {r}) \cup {[stage |-> "loop", conv |-> r.conv,
                                todo |-> UnreadOf(r.conv, UserOf(s))]}]
    /\ UNCHANGED <<extVars, chanVars, dbVars, rtVars, uiVars, insertHandlers, sendReq, reactReq, editReq,
                   deleteReq, fetchReq, callLoop, timers, nextCall, outVars, histVars>>

\* seen_by written for one message of the snapshot: [...currentSeenBy, user.id]
SeenByUnchanged(currentSeenBy, u) == currentSeenBy
SeenByUpdate(currentSeenBy, u) == Append(currentSeenBy, u)

\* one iteration of the for loop; the result of the update is not looked at
MarkSeenStep(s, r, ok) ==
    /\ r \in seenReq[s] /\ r.stage = "loop"
    /\ seenReq' = [seenReq EXCEPT ![s] =
          IF Len(r.todo) <= 1 THEN @ \ {r}
          ELSE (@ \ {r}) \cup {[r EXCEPT !.todo = Tail(r.todo)]}]
    /\ IF UserOf(s) \in SeqToSet(Head(r.todo).seen_by)
       THEN ok /\ NoWrite
       ELSE IF ok
            THEN DbUpdate(s, Head(r.todo).id, "seen",
                          [RowOf(Head(r.todo).id) EXCEPT
                              !.seen_by = SeenByUpdate(Head(r.todo).seen_by, UserOf(s))],
                          UserOf(s))
            ELSE DbFail(s, "seen")
    /\ UNCHANGED <<extVars, chanVars, participants, subscription, callEvents, callsSubscribed, uiVars, insertHandlers,
                   sendReq, reactReq, editReq, deleteReq, fetchReq, callLoop, timers,
                   nextCall, outVars, callLog, activeCall, ops>>

\* ------------------------------------------------------------- updateUserPresence
\* profiles.last_seen := now; the change of the row reaches the
\* postgres_changes listener of every open session (subscribeToPresence)
UpdateUserPresence(s) ==
    /\ lastSeen' = [lastSeen EXCEPT ![UserOf(s)] = clock]
    /\ onlineReq' = [t \in Sessions |->
          IF callsSubscribed[t]
          THEN onlineReq[t] \cup {[stage |-> "event", since |-> 0, data |-> {}]}
          ELSE onlineReq[t]]

\* ------------------------------------------------------------- typing
\* sendTypingIndicator: a broadcast on typing-<conv>, nothing stored.  Every
\* session subscribed to that channel gets it; the sender's own session is
\* among them (a send through a channel object that has not joined is not
\* held back from the sender's subscription).
SendTypingIndicator(s, conv, isTyping) ==
    typingEvents' = [t \in Sessions |->
        IF userProfile[s] /\ conv # Null /\ typingSub[t] = conv
        THEN Append(typingEvents[t], [user_id |-> UserOf(s), is_typing |-> isTyping])
        ELSE typingEvents[t]]

\* clearTimeout(typingTimeoutRef.current)
ClearTypingTimeout(s) == {tm \in typingTimers[s] : tm.id # typingTimeoutRef[s]}

\* onChange of the message input
HandleInputChange(s) ==
    /\ selectedConversation[s] # Null
    /\ ops > 0 /\ ops' = ops - 1
    /\ SendTypingIndicator(s, selectedConversation[s], TRUE)
    /\ typingTimers' = [typingTimers EXCEPT ![s] = ClearTypingTimeout(s) \cup
          {[id |-> typingTimeoutRef[s] + 1, conv |-> selectedConversation[s]]}]
    /\ typingTimeoutRef' = [typingTimeoutRef EXCEPT ![s] = @ + 1]
    /\ UNCHANGED <<dbVars, rtVars, typingSub, uiVars, reqVars, outVars, writeLog, callLog,
                   activeCall, dbConversations, lastSeen, clock, storage, onlineUsers,
                   typingUsers, uploadReq, onlineReq, createReq, uploadLog>>

\* the 2 s timer of handleInputChange fires: sendTypingIndicator(false) of the
\* render that set it
TypingTimeout(s, tm) ==
    /\ tm \in typingTimers[s]
    /\ typingTimers' = [typingTimers EXCEPT ![s] = @ \ {tm}]
    /\ SendTypingIndicator(s, tm.conv, FALSE)
    /\ UNCHANGED <<dbVars, rtVars, typingSub, uiVars, reqVars, outVars, histVars,
                   dbConversations, lastSeen, clock, storage, onlineUsers, typingUsers,
                   typingTimeoutRef, uploadReq, onlineReq, createReq, uploadLog>>

FromAnyone(s, payload) == TRUE
FromOther(s, payload) == payload.user_id # UserOf(s)

\* the broadcast handler of subscribeToTyping
HandleTyping(s) ==
    /\ typingEvents[s] # <<>>
    /\ LET payload == Head(typingEvents[s]) IN
         typingUsers' = [typingUsers EXCEPT ![s] =
            IF FromOther(s, payload)
            THEN IF payload.is_typing THEN @ \cup {payload.user_id}
                 ELSE @ \ {payload.user_id}
            ELSE @]
    /\ typingEvents' = [typingEvents EXCEPT ![s] = Tail(@)]
    /\ UNCHANGED <<dbVars, rtVars, typingSub, uiVars, reqVars, outVars, histVars,
                   dbConversations, lastSeen, clock, storage, onlineUsers,
                   typingTimeoutRef, typingTimers, uploadReq, onlineReq, createReq,
                   uploadLog>>

\* ------------------------------------------------------------- sendMessage
SendMessageBegin(s, content) ==
    /\ nextId <= MaxMsgs
    /\ selectedConversation[s] # Null
    /\ ~isLoading[s]
    /\ isLoading' = [isLoading EXCEPT ![s] = TRUE]
    /\ sendReq' = [sendReq EXCEPT ![s] =
          [stage |-> "sent", conv |-> selectedConversation[s], content |-> content]]
    /\ SendTypingIndicator(s, selectedConversation[s], FALSE)
    /\ typingTimers' = [typingTimers EXCEPT ![s] = ClearTypingTimeout(s)]
    /\ UpdateUserPresence(s)
    /\ ops > 0 /\ ops' = ops - 1
    /\ UNCHANGED <<dbVars, rtVars, typingSub, conversations, userProfile, selectedConversation,
                   messages, editingMessage, messageToDelete, incomingCall,
                   showVideoCall, videoCallUrl, insertHandlers, reactReq, editReq,
                   deleteReq, seenReq, fetchReq, callLoop, timers, nextCall, outVars,
                   writeLog, callLog, activeCall, dbConversations, clock, storage,
                   onlineUsers, typingUsers, typingTimeoutRef, uploadReq, createReq,
                   uploadLog>>

SendMessageCommit(s, ok) ==
    /\ sendReq[s].stage = "sent"
    /\ IF ok THEN DbInsert(s, sendReq[s].conv, sendReq[s].content, "text")
       ELSE DbFail(s, "insert")
    /\ sendReq' = [sendReq EXCEPT ![s] = [@ EXCEPT !.stage = IF ok THEN "ok" ELSE "error"]]
    /\ UNCHANGED <<extVars, chanVars, participants, subscription, callEvents, callsSubscribed, uiVars, insertHandlers,
                   reactReq, editReq, deleteReq, seenReq, fetchReq, callLoop, timers,
                   nextCall, outVars, callLog, activeCall, ops>>

\* the insert commits in the same instant of the database clock as the insert
\* that follows it
SendMessageCommitSameInstant(s) ==
    /\ sendReq[s].stage = "sent"
    /\ DbInsertAt(s, sendReq[s].conv, sendReq[s].content, "text", 0)
    /\ sendReq' = [sendReq EXCEPT ![s] = [@ EXCEPT !.stage = "ok"]]
    /\ UNCHANGED <<extVars, chanVars, participants, subscription, callEvents, callsSubscribed, uiVars, insertHandlers,
                   reactReq, editReq, deleteReq, seenReq, fetchReq, callLoop, timers,
                   nextCall, outVars, callLog, activeCall, ops>>

SendMessageDone(s) ==
    /\ sendReq[s].stage \in {"ok", "error"}
    /\ errors' = [errors EXCEPT ![s] = IF sendReq[s].stage = "error" THEN @ + 1 ELSE @]
    /\ isLoading' = [isLoading EXCEPT ![s] = FALSE]
    /\ sendReq' = [sendReq EXCEPT ![s] = NoReq]
    /\ UNCHANGED <<extVars, chanVars, dbVars, rtVars, conversations, userProfile, selectedConversation,
                   messages, editingMessage, messageToDelete, incomingCall,
                   showVideoCall, videoCallUrl, insertHandlers, reactReq, editReq,
                   deleteReq, seenReq, fetchReq, callLoop, timers, nextCall, toasts,
                   histVars>>

\* ------------------------------------------------------------- addReaction
AddReactionBegin(s, id, e) ==
    /\ reactReq[s].stage = "idle"
    /\ HasMsg(messages[s], id)
    /\ reactReq' = [reactReq EXCEPT ![s] =
          [stage |-> "sent", id |-> id, emoji |-> e,
           newReactions |-> ToggleReaction(MsgOf(messages[s], id).reactions, UserOf(s), e)]]
    /\ ops > 0 /\ ops' = ops - 1
    /\ UNCHANGED <<extVars, chanVars, dbVars, rtVars, uiVars, insertHandlers, sendReq, editReq, deleteReq,
                   seenReq, fetchReq, callLoop, timers, nextCall, outVars, writeLog,
                   callLog, activeCall>>

AddReactionCommit(s, ok) ==
    /\ reactReq[s].stage = "sent"
    /\ IF ok
       THEN DbUpdate(s, reactReq[s].id, "reaction",
                     [RowOf(reactReq[s].id) EXCEPT !.reactions = reactReq[s].newReactions],
                     [emoji |-> reactReq[s].emoji, user_id |-> UserOf(s)])
       ELSE DbFail(s, "reaction")
    /\ reactReq' = [reactReq EXCEPT ![s] = [@ EXCEPT !.stage = IF ok THEN "ok" ELSE "error"]]
    /\ UNCHANGED <<extVars, chanVars, participants, subscription, callEvents, callsSubscribed, uiVars, insertHandlers,
                   sendReq, editReq, deleteReq, seenReq, fetchReq, callLoop, timers,
                   nextCall, outVars, callLog, activeCall, ops>>

AddReactionDone(s) ==
    /\ reactReq[s].stage \in {"ok", "error"}
    /\ messages' = [messages EXCEPT ![s] =
          IF reactReq[s].stage = "ok"
          THEN SetLocalReactions(@, reactReq[s].id, reactReq[s].newReactions) ELSE @]
    /\ errors' = [errors EXCEPT ![s] = IF reactReq[s].stage = "error" THEN @ + 1 ELSE @]
    /\ reactReq' = [reactReq EXCEPT ![s] = NoReq]
    /\ UNCHANGED <<extVars, chanVars, dbVars, rtVars, conversations, userProfile, selectedConversation,
                   isLoading, editingMessage, messageToDelete, incomingCall,
                   showVideoCall, videoCallUrl, insertHandlers, sendReq, editReq,
                   deleteReq, seenReq, fetchReq, callLoop, timers, nextCall, toasts,
                   histVars>>

\* ------------------------------------------------------------- editing
\* startEditMessage(message), then the edit box filled with content
StartEditMessage(s, id, content) ==
    /\ editingMessage[s].id = 0 /\ editReq[s].stage = "idle"
    /\ HasMsg(messages[s], id)
    /\ editingMessage' = [editingMessage EXCEPT ![s] = [id |-> id, content |-> content]]
    /\ UNCHANGED <<extVars, chanVars, dbVars, rtVars, conversations, userProfile, selectedConversation,
                   messages, isLoading, messageToDelete, incomingCall, showVideoCall,
                   videoCallUrl, reqVars, outVars, writeLog, callLog, activeCall, ops>>

SaveEditMessageBegin(s) ==
    /\ editingMessage[s].id # 0
    /\ editReq[s].stage = "idle"
    /\ editReq' = [editReq EXCEPT ![s] =
          [stage |-> "sent", id |-> editingMessage[s].id,
           content |-> editingMessage[s].content]]
    /\ ops > 0 /\ ops' = ops - 1
    /\ UNCHANGED <<extVars, chanVars, dbVars, rtVars, uiVars, insertHandlers, sendReq, reactReq, deleteReq,
                   seenReq, fetchReq, callLoop, timers, nextCall, outVars, writeLog, callLog,
                   activeCall>>

SaveEditMessageCommit(s, ok) ==
    /\ editReq[s].stage = "sent"
    /\ IF ok
       THEN DbUpdate(s, editReq[s].id, "edit",
                     [RowOf(editReq[s].id) EXCEPT !.content = editReq[s].content], Null)
       ELSE DbFail(s, "edit")
    /\ editReq' = [editReq EXCEPT ![s] = [@ EXCEPT !.stage = IF ok THEN "ok" ELSE "error"]]
    /\ UNCHANGED <<extVars, chanVars, participants, subscription, callEvents, callsSubscribed, uiVars, insertHandlers,
                   sendReq, reactReq, deleteReq, seenReq, fetchReq, callLoop, timers,
                   nextCall, outVars, callLog, activeCall, ops>>

\* on success the local copy is patched and cancelEdit() runs
SaveEditMessageDone(s) ==
    /\ editReq[s].stage \in {"ok", "error"}
    /\ messages' = [messages EXCEPT ![s] =
          IF editReq[s].stage = "ok"
          THEN SetLocalContent(@, editReq[s].id, editReq[s].content) ELSE @]
    /\ editingMessage' = [editingMessage EXCEPT ![s] =
          IF editReq[s].stage = "ok" THEN [id |-> 0, content |-> Null] ELSE @]
    /\ errors' = [errors EXCEPT ![s] = IF editReq[s].stage = "error" THEN @ + 1 ELSE @]
    /\ editReq' = [editReq EXCEPT ![s] = NoReq]
    /\ UNCHANGED <<extVars, chanVars, dbVars, rtVars, conversations, userProfile, selectedConversation,
                   isLoading, messageToDelete, incomingCall, showVideoCall, videoCallUrl,
                   insertHandlers, sendReq, reactReq, deleteReq, seenReq, fetchReq,
                   callLoop, timers, nextCall, toasts, histVars>>

\* ------------------------------------------------------------- deletion
\* setMessageToDelete(message)
SetMessageToDelete(s, id) ==
    /\ messageToDelete[s] = 0 /\ deleteReq[s].stage = "idle"
    /\ HasMsg(messages[s], id)
    /\ messageToDelete' = [messageToDelete EXCEPT ![s] = id]
    /\ UNCHANGED <<extVars, chanVars, dbVars, rtVars, conversations, userProfile, selectedConversation,
                   messages, isLoading, editingMessage, incomingCall, showVideoCall,
                   videoCallUrl, reqVars, outVars, writeLog, callLog, activeCall, ops>>

ConfirmDeleteMessageBegin(s) ==
    /\ messageToDelete[s] # 0
    /\ deleteReq[s].stage = "idle"
    /\ deleteReq' = [deleteReq EXCEPT ![s] = [stage |-> "sent", id |-> messageToDelete[s]]]
    /\ ops > 0 /\ ops' = ops - 1
    /\ UNCHANGED <<extVars, chanVars, dbVars, rtVars, uiVars, insertHandlers, sendReq, reactReq, editReq,
                   seenReq, fetchReq, callLoop, timers, nextCall, outVars, writeLog, callLog,
                   activeCall>>

ConfirmDeleteMessageCommit(s, ok) ==
    /\ deleteReq[s].stage = "sent"
    /\ IF ok THEN DbDelete(s, deleteReq[s].id) ELSE DbFail(s, "delete")
    /\ deleteReq' = [deleteReq EXCEPT ![s] = [@ EXCEPT !.stage = IF ok THEN "ok" ELSE "error"]]
    /\ UNCHANGED <<extVars, chanVars, participants, subscription, callEvents, callsSubscribed, uiVars, insertHandlers,
                   sendReq, reactReq, editReq, seenReq, fetchReq, callLoop, timers,
                   nextCall, outVars, callLog, activeCall, ops>>

ConfirmDeleteMessageDone(s) ==
    /\ deleteReq[s].stage \in {"ok", "error"}
    /\ messages' = [messages EXCEPT ![s] =
          IF deleteReq[s].stage = "ok" THEN RemoveLocal(@, deleteReq[s].id) ELSE @]
    /\ messageToDelete' = [messageToDelete EXCEPT ![s] =
          IF deleteReq[s].stage = "ok" THEN 0 ELSE @]
    /\ errors' = [errors EXCEPT ![s] = IF deleteReq[s].stage = "error" THEN @ + 1 ELSE @]
    /\ deleteReq' = [deleteReq EXCEPT ![s] = NoReq]
    /\ UNCHANGED <<extVars, chanVars, dbVars, rtVars, conversations, userProfile, selectedConversation,
                   isLoading, editingMessage, incomingCall, showVideoCall, videoCallUrl,
                   insertHandlers, sendReq, reactReq, editReq, seenReq, fetchReq,
                   callLoop, timers, nextCall, toasts, histVars>>

\* ------------------------------------------------------------- subscribeToMessages
\* INSERT handler up to its await of the sender's profile
HandleInsert(s) ==
    /\ pgEvents[s] # <<>> /\ Head(pgEvents[s]).type = "INSERT"
    /\ pgEvents' = [pgEvents EXCEPT ![s] = Tail(@)]
    /\ insertHandlers' = [insertHandlers EXCEPT ![s] = @ \cup {Head(pgEvents[s]).row}]
    /\ UNCHANGED <<extVars, chanVars, dbVars, subscription, callEvents, callsSubscribed, uiVars, sendReq, reactReq, editReq,
                   deleteReq, seenReq, fetchReq, callLoop, timers, nextCall, outVars,
                   histVars>>

\* the profile arrived: the handler appends its message
FinishInsert(s, row) ==
    /\ row \in insertHandlers[s]
    /\ insertHandlers' = [insertHandlers EXCEPT ![s] = @ \ {row}]
    /\ messages' = [messages EXCEPT ![s] = AppendIfNew(@, row)]
    /\ UNCHANGED <<extVars, chanVars, dbVars, rtVars, conversations, userProfile, selectedConversation,
                   isLoading, editingMessage, messageToDelete, incomingCall,
                   showVideoCall, videoCallUrl, sendReq, reactReq, editReq, deleteReq,
                   seenReq, fetchReq, callLoop, timers, nextCall, outVars, histVars>>

\* the realtime service delivers the INSERT event at the head of the queue once
\* more
Redeliver(s) ==
    /\ pgEvents[s] # <<>> /\ Head(pgEvents[s]).type = "INSERT"
    /\ ops > 0 /\ ops' = ops - 1
    /\ pgEvents' = [pgEvents EXCEPT ![s] = <<Head(@)>> \o @]
    /\ UNCHANGED <<extVars, chanVars, dbVars, subscription, callEvents, callsSubscribed,
                   uiVars, reqVars, outVars, writeLog, callLog, activeCall>>

HandleUpdate(s) ==
    /\ pgEvents[s] # <<>> /\ Head(pgEvents[s]).type = "UPDATE"
    /\ pgEvents' = [pgEvents EXCEPT ![s] = Tail(@)]
    /\ messages' = [messages EXCEPT ![s] = ApplyUpdate(@, Head(pgEvents[s]).row)]
    /\ UNCHANGED <<extVars, chanVars, dbVars, subscription, callEvents, callsSubscribed, conversations, userProfile,
                   selectedConversation, isLoading, editingMessage, messageToDelete,
                   incomingCall, showVideoCall, videoCallUrl, reqVars, outVars, histVars>>

HandleDelete(s) ==
    /\ pgEvents[s] # <<>> /\ Head(pgEvents[s]).type = "DELETE"
    /\ pgEvents' = [pgEvents EXCEPT ![s] = Tail(@)]
    /\ messages' = [messages EXCEPT ![s] = RemoveLocal(@, Head(pgEvents[s]).row.id)]
    /\ UNCHANGED <<extVars, chanVars, dbVars, subscription, callEvents, callsSubscribed, conversations, userProfile,
                   selectedConversation, isLoading, editingMessage, messageToDelete,
                   incomingCall, showVideoCall, videoCallUrl, reqVars, outVars, histVars>>

\* ------------------------------------------------------------- calls
\* channel.send on calls-<u>: the broadcast reaches every session of u that
\* holds the channel
\* the broadcast sent on a channel that every session listens to
DeliverToAll(q, ev, u) ==
    [t \in Sessions |-> IF callsSubscribed[t] THEN Append(q[t], ev) ELSE q[t]]

Deliver(q, ev, u) ==
    [t \in Sessions |->
        IF callsSubscribed[t] /\ UserOf(t) = u THEN Append(q[t], ev) ELSE q[t]]

\* getCurrentConversation()?.participants?.filter(p => p.user_id !== user.id)
OtherParticipants(s) ==
    IF selectedConversation[s] \in conversations[s]
    THEN participants[selectedConversation[s]] \ {UserOf(s)}
    ELSE {}

CallEntry(kind, s, callId, conv, to, cleared) ==
    [kind |-> kind, session |-> s, callId |-> callId, conv |-> conv, to |-> to,
     cleared |-> cleared]

NoActive == [callId |-> 0, conv |-> Null]

\* startVideoCall up to the first await of its send loop; with nobody else in
\* the conversation it logs an error and returns
StartVideoCall(s) ==
    /\ callLoop[s].stage = "idle"
    /\ selectedConversation[s] # Null /\ userProfile[s]
    /\ ops > 0 /\ ops' = ops - 1
    /\ IF OtherParticipants(s) = {}
       THEN /\ errors' = [errors EXCEPT ![s] = @ + 1]
            /\ callLog' = callLog \cup
                  {CallEntry("Refused", s, 0, selectedConversation[s], {}, FALSE)}
            /\ UNCHANGED <<videoCallUrl, showVideoCall, callLoop, nextCall, activeCall>>
       ELSE /\ nextCall <= MaxCalls
            /\ videoCallUrl' = [videoCallUrl EXCEPT ![s] = nextCall]
            /\ showVideoCall' = [showVideoCall EXCEPT ![s] = TRUE]
            /\ callLoop' = [callLoop EXCEPT ![s] =
                  [stage |-> "sending", event |-> "incoming_call",
                   rest |-> SetToSeq(OtherParticipants(s)), sent |-> {},
                   payload |-> [roomUrl |-> nextCall, caller |-> UserOf(s),
                                conversationId |-> selectedConversation[s],
                                callId |-> nextCall],
                   orig |-> selectedConversation[s]]]
            /\ nextCall' = nextCall + 1
            /\ activeCall' = [activeCall EXCEPT ![s] =
                  [callId |-> nextCall, conv |-> selectedConversation[s]]]
            /\ UNCHANGED <<errors, callLog>>
    /\ UNCHANGED <<extVars, chanVars, dbVars, rtVars, conversations, userProfile,
                   selectedConversation, messages, isLoading, editingMessage,
                   messageToDelete, incomingCall, insertHandlers, sendReq, reactReq,
                   editReq, deleteReq, seenReq, fetchReq, timers, toasts, writeLog>>

\* one iteration of a send loop: channel.send(...) to the next participant,
\* which the loop awaits
CallLoopSend(s) ==
    /\ callLoop[s].stage = "sending" /\ callLoop[s].rest # <<>>
    /\ callEvents' = Deliver(callEvents,
          [event |-> callLoop[s].event, payload |-> callLoop[s].payload],
          Head(callLoop[s].rest))
    /\ callLoop' = [callLoop EXCEPT ![s] =
          [@ EXCEPT !.stage = "awaiting", !.sent = @ \cup {Head(callLoop[s].rest)}]]
    /\ callLog' = callLog \cup
          {CallEntry(callLoop[s].event, s, callLoop[s].payload.callId,
                     callLoop[s].payload.conversationId, {Head(callLoop[s].rest)}, FALSE)}
    /\ UNCHANGED <<extVars, chanVars, dbVars, subscription, pgEvents, callsSubscribed, uiVars,
                   insertHandlers, sendReq, reactReq, editReq, deleteReq, seenReq,
                   fetchReq, timers, nextCall, outVars, writeLog, activeCall, ops>>

\* the awaited send settles and the for loop goes on to the next participant
CallLoopSettle(s) ==
    /\ callLoop[s].stage = "awaiting"
    /\ callLoop' = [callLoop EXCEPT ![s] = [@ EXCEPT !.stage = "sending", !.rest = Tail(@)]]
    /\ UNCHANGED <<extVars, chanVars, dbVars, rtVars, uiVars, insertHandlers, sendReq,
                   reactReq, editReq, deleteReq, seenReq, fetchReq, timers, nextCall,
                   outVars, histVars>>

\* after the loop startVideoCall inserts the call_info message; the result of
\* the insert is not looked at
StartVideoCallInsert(s, ok) ==
    /\ callLoop[s].stage = "sending" /\ callLoop[s].event = "incoming_call"
    /\ callLoop[s].rest = <<>>
    /\ IF ok THEN DbInsert(s, callLoop[s].payload.conversationId, "call", "call_info")
       ELSE DbFail(s, "insert")
    /\ callLoop' = [callLoop EXCEPT ![s] = NoReq]
    /\ UNCHANGED <<extVars, chanVars, participants, subscription, callEvents, callsSubscribed, uiVars,
                   insertHandlers, sendReq, reactReq, editReq, deleteReq, seenReq,
                   fetchReq, timers, nextCall, outVars, callLog, activeCall, ops>>

\* incoming_call handler: the payload becomes the pending invite and a 30 s
\* timer is started, unless the session's own user is the caller
ReceiveIncomingCall(s) ==
    /\ callEvents[s] # <<>> /\ Head(callEvents[s]).event = "incoming_call"
    /\ callEvents' = [callEvents EXCEPT ![s] = Tail(@)]
    /\ LET payload == Head(callEvents[s]).payload IN
       IF payload.caller # UserOf(s)
       THEN /\ incomingCall' = [incomingCall EXCEPT ![s] = payload]
            /\ timers' = [timers EXCEPT ![s] = Append(@, payload.callId)]
            /\ callLog' = callLog \cup
                  {CallEntry("Invited", s, payload.callId, payload.conversationId, {}, FALSE)}
       ELSE UNCHANGED <<incomingCall, timers, callLog>>
    /\ UNCHANGED <<extVars, chanVars, dbVars, subscription, pgEvents, callsSubscribed, conversations,
                   userProfile, selectedConversation, messages, isLoading, editingMessage,
                   messageToDelete, showVideoCall, videoCallUrl, insertHandlers, sendReq,
                   reactReq, editReq, deleteReq, seenReq, fetchReq, callLoop, nextCall,
                   outVars, writeLog, activeCall, ops>>

\* call_ended handler: setIncomingCall(null); setShowVideoCall(false)
ReceiveCallEnded(s) ==
    /\ callEvents[s] # <<>> /\ Head(callEvents[s]).event = "call_ended"
    /\ callEvents' = [callEvents EXCEPT ![s] = Tail(@)]
    /\ incomingCall' = [incomingCall EXCEPT ![s] = NoCall]
    /\ showVideoCall' = [showVideoCall EXCEPT ![s] = FALSE]
    /\ callLog' = callLog \cup
          (IF incomingCall[s] # NoCall
           THEN {CallEntry("Ended", s, incomingCall[s].callId,
                           incomingCall[s].conversationId, {}, FALSE)}
           ELSE {})
    /\ activeCall' = [activeCall EXCEPT ![s] = NoActive]
    /\ UNCHANGED <<extVars, chanVars, dbVars, subscription, pgEvents, callsSubscribed, conversations,
                   userProfile, selectedConversation, messages, isLoading, editingMessage,
                   messageToDelete, videoCallUrl, reqVars, outVars, writeLog, ops>>

\* the callback of the oldest pending 30 s timer: a missed-call toast and the
\* invite dismissed when the pending invite is still the timer's call
TimerHits(pending, callId) == pending # NoCall /\ pending.callId = callId

TimerFire(s) ==
    /\ timers[s] # <<>>
    /\ timers' = [timers EXCEPT ![s] = Tail(@)]
    /\ LET callId == Head(timers[s]) IN
       IF TimerHits(incomingCall[s], callId)
       THEN /\ toasts' = [toasts EXCEPT ![s][callId] = @ + 1]
            /\ incomingCall' = [incomingCall EXCEPT ![s] = NoCall]
            /\ callLog' = callLog \cup
                  {CallEntry("Expired", s, callId, incomingCall[s].conversationId, {}, FALSE),
                   CallEntry("TimerFired", s, callId, Null, {}, FALSE)}
       ELSE /\ callLog' = callLog \cup {CallEntry("TimerFired", s, callId, Null, {}, FALSE)}
            /\ UNCHANGED <<toasts, incomingCall>>
    /\ UNCHANGED <<extVars, chanVars, dbVars, rtVars, conversations, userProfile, selectedConversation,
                   messages, isLoading, editingMessage, messageToDelete, showVideoCall,
                   videoCallUrl, insertHandlers, sendReq, reactReq, editReq, deleteReq,
                   seenReq, fetchReq, callLoop, nextCall, errors, writeLog, activeCall,
                   ops>>

\* acceptCall: the invite's room and conversation are taken over; the change of
\* selectedConversation runs the selection effect
AcceptCall(s) ==
    /\ incomingCall[s] # NoCall
    /\ videoCallUrl' = [videoCallUrl EXCEPT ![s] = incomingCall[s].roomUrl]
    /\ showVideoCall' = [showVideoCall EXCEPT ![s] = TRUE]
    /\ incomingCall' = [incomingCall EXCEPT ![s] = NoCall]
    /\ IF incomingCall[s].conversationId # selectedConversation[s]
       THEN SelectEffect(s, incomingCall[s].conversationId)
       ELSE UNCHANGED <<selectedConversation, subscription, pgEvents, fetchReq, seenReq,
                       chanVars>>
    /\ callLog' = callLog \cup
          {CallEntry("Accepted", s, incomingCall[s].callId,
                     incomingCall[s].conversationId, {}, FALSE)}
    /\ activeCall' = [activeCall EXCEPT ![s] =
          [callId |-> incomingCall[s].callId, conv |-> incomingCall[s].conversationId]]
    /\ ops > 0 /\ ops' = ops - 1
    /\ UNCHANGED <<extVars, dbVars, callEvents, callsSubscribed, conversations, userProfile,
                   messages, isLoading, editingMessage, messageToDelete, insertHandlers,
                   sendReq, reactReq, editReq, deleteReq, callLoop, timers, nextCall,
                   outVars, writeLog>>

\* declineCall (also the dialog's onOpenChange): setIncomingCall(null)
DeclineCall(s) ==
    /\ incomingCall[s] # NoCall
    /\ incomingCall' = [incomingCall EXCEPT ![s] = NoCall]
    /\ callLog' = callLog \cup
          {CallEntry("Declined", s, incomingCall[s].callId,
                     incomingCall[s].conversationId, {}, FALSE)}
    /\ ops > 0 /\ ops' = ops - 1
    /\ UNCHANGED <<extVars, chanVars, dbVars, rtVars, conversations, userProfile, selectedConversation,
                   messages, isLoading, editingMessage, messageToDelete, showVideoCall,
                   videoCallUrl, reqVars, outVars, writeLog, activeCall>>

\* endCall (onClose of the video view) up to the first await of its send loop:
\* nothing at all without a selected conversation, the state cleared at once
\* when there is nobody to send to
EndCall(s) ==
    /\ showVideoCall[s]
    /\ callLoop[s].stage = "idle"
    /\ ops > 0 /\ ops' = ops - 1
    /\ IF selectedConversation[s] = Null
       THEN /\ callLog' = callLog \cup
                  {CallEntry("EndCall", s, activeCall[s].callId, activeCall[s].conv, {},
                             FALSE)}
            /\ UNCHANGED <<callLoop, showVideoCall, videoCallUrl, incomingCall, activeCall>>
       ELSE IF OtherParticipants(s) = {}
       THEN /\ showVideoCall' = [showVideoCall EXCEPT ![s] = FALSE]
            /\ videoCallUrl' = [videoCallUrl EXCEPT ![s] = 0]
            /\ incomingCall' = [incomingCall EXCEPT ![s] = NoCall]
            /\ callLog' = callLog \cup
                  {CallEntry("EndCall", s, activeCall[s].callId, activeCall[s].conv, {},
                             TRUE)}
            /\ activeCall' = [activeCall EXCEPT ![s] = NoActive]
            /\ UNCHANGED callLoop
       ELSE /\ callLoop' = [callLoop EXCEPT ![s] =
                  [stage |-> "sending", event |-> "call_ended",
                   rest |-> SetToSeq(OtherParticipants(s)), sent |-> {},
                   payload |-> [roomUrl |-> 0, caller |-> UserOf(s),
                                conversationId |-> selectedConversation[s], callId |-> 0],
                   orig |-> activeCall[s].conv]]
            /\ UNCHANGED <<callLog, showVideoCall, videoCallUrl, incomingCall, activeCall>>
    /\ UNCHANGED <<extVars, chanVars, dbVars, rtVars, conversations, userProfile, selectedConversation,
                   messages, isLoading, editingMessage, messageToDelete, insertHandlers,
                   sendReq, reactReq, editReq, deleteReq, seenReq, fetchReq, timers,
                   nextCall, outVars, writeLog>>

\* the loop of endCall is over: the call state of the session is cleared
EndCallFinish(s) ==
    /\ callLoop[s].stage = "sending" /\ callLoop[s].event = "call_ended"
    /\ callLoop[s].rest = <<>>
    /\ showVideoCall' = [showVideoCall EXCEPT ![s] = FALSE]
    /\ videoCallUrl' = [videoCallUrl EXCEPT ![s] = 0]
    /\ incomingCall' = [incomingCall EXCEPT ![s] = NoCall]
    /\ callLog' = callLog \cup
          {CallEntry("EndCall", s, activeCall[s].callId, callLoop[s].orig,
                     callLoop[s].sent, TRUE)}
    /\ activeCall' = [activeCall EXCEPT ![s] = NoActive]
    /\ callLoop' = [callLoop EXCEPT ![s] = NoReq]
    /\ UNCHANGED <<extVars, chanVars, dbVars, rtVars, conversations, userProfile, selectedConversation,
                   messages, isLoading, editingMessage, messageToDelete, insertHandlers,
                   sendReq, reactReq, editReq, deleteReq, seenReq, fetchReq, timers,
                   nextCall, outVars, writeLog, ops>>

\* ------------------------------------------------------------- presence
\* a minute passes
Tick ==
    /\ clock < MaxClock
    /\ clock' = clock + 1
    /\ UNCHANGED <<dbVars, rtVars, chanVars, uiVars, reqVars, outVars, histVars,
                   dbConversations, lastSeen, storage, onlineUsers, typingUsers,
                   typingTimeoutRef, typingTimers, uploadReq, onlineReq, createReq,
                   uploadLog>>

\* minutes of 5 * 60 * 1000 ms
OnlineWindow == 5

\* fetchOnlineUsers up to its await: fiveMinutesAgo from the session's clock
FetchOnlineBegin(s, r) ==
    /\ r \in onlineReq[s] /\ r.stage = "event"
    /\ onlineReq' = [onlineReq EXCEPT ![s] =
          (@ \ {r}) \cup {[stage |-> "select", since |-> clock - OnlineWindow, data |-> {}]}]
    /\ UNCHANGED <<dbVars, rtVars, chanVars, uiVars, reqVars, outVars, histVars,
                   dbConversations, lastSeen, clock, storage, onlineUsers, typingUsers,
                   typingTimeoutRef, typingTimers, uploadReq, createReq, uploadLog>>

\* the select: profiles with last_seen >= fiveMinutesAgo
FetchOnlineSelect(s, r) ==
    /\ r \in onlineReq[s] /\ r.stage = "select"
    /\ onlineReq' = [onlineReq EXCEPT ![s] =
          (@ \ {r}) \cup {[stage |-> "set", since |-> r.since,
                            data |-> {u \in Users : lastSeen[u] >= r.since}]}]
    /\ UNCHANGED <<dbVars, rtVars, chanVars, uiVars, reqVars, outVars, histVars,
                   dbConversations, lastSeen, clock, storage, onlineUsers, typingUsers,
                   typingTimeoutRef, typingTimers, uploadReq, createReq, uploadLog>>

\* setOnlineUsers(new Set(data))
FetchOnlineDone(s, r) ==
    /\ r \in onlineReq[s] /\ r.stage = "set"
    /\ onlineUsers' = [onlineUsers EXCEPT ![s] = r.data]
    /\ onlineReq' = [onlineReq EXCEPT ![s] = @ \ {r}]
    /\ UNCHANGED <<dbVars, rtVars, chanVars, uiVars, reqVars, outVars, histVars,
                   dbConversations, lastSeen, clock, storage, typingUsers,
                   typingTimeoutRef, typingTimers, uploadReq, createReq, uploadLog>>

\* ------------------------------------------------------------- createConversationWithUser
\* the id the database gives to the next conversations row
NewConv == "N"

\* onClick of a found user; searchForUsers never lists the user itself
CreateConversationWithUser(s, otherUser) ==
    /\ callsSubscribed[s] /\ createReq[s] = NoReq
    /\ otherUser # UserOf(s)
    /\ \A row \in dbConversations : row.id # NewConv
    /\ \A t \in Sessions : createReq[t] = NoReq
    /\ ops > 0 /\ ops' = ops - 1
    /\ createReq' = [createReq EXCEPT ![s] =
          [stage |-> "conversation", conv |-> NewConv, other |-> otherUser]]
    /\ UNCHANGED <<dbVars, rtVars, chanVars, uiVars, reqVars, outVars, writeLog, callLog,
                   activeCall, dbConversations, lastSeen, clock, storage, onlineUsers,
                   typingUsers, typingTimeoutRef, typingTimers, uploadReq, onlineReq,
                   uploadLog>>

\* insert into conversations {is_group: false}
CreateConversationRow(s, ok) ==
    /\ createReq[s].stage = "conversation"
    /\ dbConversations' = IF ok THEN dbConversations \cup
                                    {[id |-> createReq[s].conv, is_group |-> FALSE]}
                           ELSE dbConversations
    /\ createReq' = [createReq EXCEPT ![s] =
          [@ EXCEPT !.stage = IF ok THEN "participants" ELSE "error"]]
    /\ UNCHANGED <<dbVars, rtVars, chanVars, uiVars, reqVars, outVars, histVars,
                   lastSeen, clock, storage, onlineUsers, typingUsers,
                   typingTimeoutRef, typingTimers, uploadReq, onlineReq, uploadLog>>

\* insert into conversation_participants: the two rows in one statement
CreateParticipants(s, ok) ==
    /\ createReq[s].stage = "participants"
    /\ participants' = IF ok
          THEN [participants EXCEPT ![createReq[s].conv] = {UserOf(s), createReq[s].other}]
          ELSE participants
    /\ createReq' = [createReq EXCEPT ![s] =
          [@ EXCEPT !.stage = IF ok THEN "fetch" ELSE "error"]]
    /\ UNCHANGED <<dbMessages, nextId, now, rtVars, chanVars, uiVars, reqVars, outVars,
                   histVars, dbConversations, lastSeen, clock, storage, onlineUsers,
                   typingUsers, typingTimeoutRef, typingTimers, uploadReq, onlineReq,
                   uploadLog>>

\* fetchConversations: the conversations rows joined to the user's
\* conversation_participants rows
FetchConversations(s) ==
    {row.id : row \in {r \in dbConversations : UserOf(s) \in participants[r.id]}}

\* await fetchConversations(); setSelectedConversation(conversation.id), or
\* the catch block
CreateConversationDone(s) ==
    /\ createReq[s].stage \in {"fetch", "error"}
    /\ createReq' = [createReq EXCEPT ![s] = NoReq]
    /\ IF createReq[s].stage = "fetch"
       THEN /\ conversations' = [conversations EXCEPT ![s] = FetchConversations(s)]
            /\ SelectEffect(s, createReq[s].conv)
            /\ UNCHANGED errors
       ELSE /\ errors' = [errors EXCEPT ![s] = @ + 1]
            /\ UNCHANGED <<conversations, selectedConversation, subscription, pgEvents,
                           fetchReq, seenReq, chanVars>>
    /\ UNCHANGED <<dbVars, callEvents, callsSubscribed, userProfile, messages, isLoading,
                   editingMessage, messageToDelete, incomingCall, showVideoCall,
                   videoCallUrl, insertHandlers, sendReq, reactReq, editReq, deleteReq,
                   callLoop, timers, nextCall, toasts, histVars, dbConversations,
                   lastSeen, clock, storage, onlineUsers, typingUsers, typingTimeoutRef,
                   typingTimers, uploadReq, onlineReq, uploadLog>>

\* ------------------------------------------------------------- uploadImage
\* a content type is a string, kept as the sequence of its characters
ImagePng == <<"i", "m", "a", "g", "e", "/", "p", "n", "g">>
TextPlain == <<"t", "e", "x", "t", "/", "p", "l", "a", "i", "n">>
ImageWord == <<"i", "m", "a", "g", "e">>
ImagePrefix == <<"i", "m", "a", "g", "e", "/">>
FileTypes == {ImagePng, TextPlain, ImageWord, <<>>}

\* str.startsWith(prefix)
StartsWith(str, prefix) ==
    Len(str) >= Len(prefix) /\ SubSeq(str, 1, Len(prefix)) = prefix

\* file.size > 10 * 1024 * 1024
MaxImageBytes == 10 * 1024 * 1024
FileSizes == {0, MaxImageBytes - 1, MaxImageBytes, MaxImageBytes + 1, 11 * 1024 * 1024}
Files == [type : FileTypes, size : FileSizes]

SizeAtLeastLimit(size) == size >= MaxImageBytes

ExceedsLimit(size) == size > MaxImageBytes

\* onChange of the file input: the two checks, then setIsLoading(true) and the
\* first await
UploadImage(s, file) ==
    /\ selectedConversation[s] # Null
    /\ uploadReq[s].stage = "idle"
    /\ ops > 0 /\ ops' = ops - 1
    /\ IF ~StartsWith(file.type, ImagePrefix) \/ ExceedsLimit(file.size)
       THEN /\ errors' = [errors EXCEPT ![s] = @ + 1]
            /\ uploadLog' = Append(uploadLog,
                  [session |-> s, file |-> file, outcome |-> "rejected"])
            /\ UNCHANGED <<isLoading, uploadReq>>
       ELSE /\ isLoading' = [isLoading EXCEPT ![s] = TRUE]
            /\ uploadReq' = [uploadReq EXCEPT ![s] =
                  [stage |-> "presence", conv |-> selectedConversation[s],
                   file |-> file, name |-> Len(uploadLog) + 1]]
            /\ uploadLog' = Append(uploadLog,
                  [session |-> s, file |-> file, outcome |-> "accepted"])
            /\ UNCHANGED errors
    /\ UNCHANGED <<dbVars, rtVars, chanVars, conversations, userProfile,
                   selectedConversation, messages, editingMessage, messageToDelete,
                   incomingCall, showVideoCall, videoCallUrl, reqVars, toasts,
                   writeLog, callLog, activeCall, dbConversations, lastSeen, clock,
                   storage, onlineUsers, typingUsers, typingTimeoutRef, typingTimers,
                   onlineReq, createReq>>

\* await updateUserPresence()
UploadPresence(s) ==
    /\ uploadReq[s].stage = "presence"
    /\ UpdateUserPresence(s)
    /\ uploadReq' = [uploadReq EXCEPT ![s] = [@ EXCEPT !.stage = "upload"]]
    /\ UNCHANGED <<dbVars, rtVars, chanVars, uiVars, reqVars, outVars, histVars,
                   dbConversations, clock, storage, onlineUsers, typingUsers,
                   typingTimeoutRef, typingTimers, createReq, uploadLog>>

\* supabase.storage.from('chat-images').upload(fileName, file)
UploadStore(s, ok) ==
    /\ uploadReq[s].stage = "upload"
    /\ storage' = IF ok
                  THEN storage \cup {[name |-> uploadReq[s].name, owner |-> UserOf(s),
                                       file |-> uploadReq[s].file]}
                  ELSE storage
    /\ uploadReq' = [uploadReq EXCEPT ![s] =
          [@ EXCEPT !.stage = IF ok THEN "insert" ELSE "error"]]
    /\ UNCHANGED <<dbVars, rtVars, chanVars, uiVars, reqVars, outVars, histVars,
                   dbConversations, lastSeen, clock, onlineUsers, typingUsers,
                   typingTimeoutRef, typingTimers, onlineReq, createReq, uploadLog>>

\* the insert of the image message
UploadInsert(s, ok) ==
    /\ uploadReq[s].stage = "insert"
    /\ nextId <= MaxMsgs
    /\ IF ok THEN DbInsert(s, uploadReq[s].conv, Null, "image") ELSE DbFail(s, "insert")
    /\ uploadReq' = [uploadReq EXCEPT ![s] =
          [@ EXCEPT !.stage = IF ok THEN "ok" ELSE "error"]]
    /\ UNCHANGED <<participants, subscription, callEvents, callsSubscribed, chanVars,
                   uiVars, reqVars, outVars, callLog, activeCall, ops, dbConversations,
                   lastSeen, clock, storage, onlineUsers, typingUsers, typingTimeoutRef,
                   typingTimers, onlineReq, createReq, uploadLog>>

\* catch and finally
UploadDone(s) ==
    /\ uploadReq[s].stage \in {"ok", "error"}
    /\ errors' = [errors EXCEPT ![s] = IF uploadReq[s].stage = "error" THEN @ + 1 ELSE @]
    /\ isLoading' = [isLoading EXCEPT ![s] = FALSE]
    /\ uploadReq' = [uploadReq EXCEPT ![s] = NoReq]
    /\ UNCHANGED <<dbVars, rtVars, chanVars, conversations, userProfile,
                   selectedConversation, messages, editingMessage, messageToDelete,
                   incomingCall, showVideoCall, videoCallUrl, reqVars, toasts, histVars,
                   dbConversations, lastSeen, clock, storage, onlineUsers, typingUsers,
                   typingTimeoutRef, typingTimers, onlineReq, createReq, uploadLog>>

\* ------------------------------------------------------------- write validation
\* The client does not validate a write and the row-level policies of the
\* tables are defined outside it (the migrations hold the seen_by column only);
\* the validation of a write is taken from the specification of the hub:
\* a write to a conversation by a user who is not one of its members is
\* rejected with NotMember, nothing is stored and nothing is broadcast.
AcceptsAnyUser(u, conv) == conv \in {r.id : r \in dbConversations}

IsMember(u, conv) == u \in participants[conv]

\* an insert into messages for any conversation, sent with the session's
\* credentials (the request of sendMessage, whatever conversation it names)
SubmitInsert(s, conv) ==
    /\ nextId <= MaxMsgs
    /\ conv \in {r.id : r \in dbConversations}
    /\ ops > 0 /\ ops' = ops - 1
    /\ IF IsMember(UserOf(s), conv)
       THEN DbInsert(s, conv, "hi", "text") /\ UNCHANGED errors
       ELSE DbFail(s, "NotMember") /\ errors' = [errors EXCEPT ![s] = @ + 1]
    /\ UNCHANGED <<extVars, chanVars, participants, subscription, callEvents,
                   callsSubscribed, uiVars, reqVars, toasts, callLog, activeCall>>

\* an update of the reactions of any row (the request of addReaction, whatever
\* row it names)
SubmitReaction(s, id, e) ==
    /\ HasRow(id)
    /\ ops > 0 /\ ops' = ops - 1
    /\ IF IsMember(UserOf(s), RowOf(id).conversation_id)
       THEN /\ DbUpdate(s, id, "reaction",
                        [RowOf(id) EXCEPT
                            !.reactions = ToggleReaction(@, UserOf(s), e)],
                        [emoji |-> e, user_id |-> UserOf(s)])
            /\ UNCHANGED errors
       ELSE DbFail(s, "NotMember") /\ errors' = [errors EXCEPT ![s] = @ + 1]
    /\ UNCHANGED <<extVars, chanVars, participants, subscription, callEvents,
                   callsSubscribed, uiVars, reqVars, toasts, callLog, activeCall>>

\* ------------------------------------------------------------- opening the page
\* useEffect([user]) of a session that opens: fetchUserProfile and
\* fetchConversations are started, last_seen is written, the presence listener
\* is set up with its first fetchOnlineUsers, and the calls channel is joined
Mount(s) ==
    /\ ~callsSubscribed[s]
    /\ callsSubscribed' = [callsSubscribed EXCEPT ![s] = TRUE]
    /\ lastSeen' = [lastSeen EXCEPT ![UserOf(s)] = clock]
    /\ onlineReq' = [t \in Sessions |->
          IF callsSubscribed[t] \/ t = s
          THEN onlineReq[t] \cup {[stage |-> "event", since |-> 0, data |-> {}]}
          ELSE onlineReq[t]]
    /\ UNCHANGED <<dbVars, subscription, pgEvents, callEvents, uiVars, reqVars, outVars,
                   histVars, chanVars, dbConversations, clock, storage, onlineUsers,
                   typingUsers, typingTimeoutRef, typingTimers, uploadReq, createReq,
                   uploadLog>>

\* fetchUserProfile after its await: setUserProfile(data).  No effect depends
\* on userProfile, so nothing is subscribed here.
FetchUserProfile(s) ==
    /\ callsSubscribed[s] /\ ~userProfile[s]
    /\ userProfile' = [userProfile EXCEPT ![s] = TRUE]
    /\ UNCHANGED <<dbVars, rtVars, conversations, selectedConversation, messages, isLoading,
                   editingMessage, messageToDelete, incomingCall, showVideoCall,
                   videoCallUrl, reqVars, outVars, histVars, chanVars, extVars>>

\* fetchConversations of the mount after its awaits: setConversations, and the
\* first row is selected when the render that started it had no selection (the
\* select has no order by: any row can be first)
FetchConversationsSet(s) ==
    /\ callsSubscribed[s] /\ conversations[s] = {}
    /\ conversations' = [conversations EXCEPT ![s] = FetchConversations(s)]
    /\ IF FetchConversations(s) # {} /\ selectedConversation[s] = Null
       THEN \E c \in FetchConversations(s) : SelectEffect(s, c)
       ELSE UNCHANGED <<selectedConversation, subscription, pgEvents, fetchReq, seenReq,
                        chanVars>>
    /\ UNCHANGED <<dbVars, callEvents, callsSubscribed, userProfile, messages, isLoading,
                   editingMessage, messageToDelete, incomingCall, showVideoCall,
                   videoCallUrl, insertHandlers, sendReq, reactReq, editReq, deleteReq,
                   callLoop, timers, nextCall, outVars, histVars, extVars>>

\* ------------------------------------------------------------- initial states
\* fetchConversations' result: the conversations the user participates in
LoadedConversations(s) == {c \in Convs : UserOf(s) \in InitParticipants[c]}

\* The sessions of DOMAIN sel are open and loaded: profile and conversations
\* fetched, the calls channel subscribed, the conversation sel[s] selected and
\* its history fetched; `rows` are the messages sent so far (by a1), every
\* event of which has been handled.  The other sessions are not open.
InitOf(sel, rows, budget) ==
    /\ dbMessages = rows /\ nextId = Len(rows) + 1 /\ now = 0
    /\ participants = InitParticipants
    /\ selectedConversation = [s \in Sessions |-> IF s \in DOMAIN sel THEN sel[s] ELSE Null]
    /\ subscription = selectedConversation
    /\ pgEvents = [s \in Sessions |-> <<>>]
    /\ callEvents = [s \in Sessions |-> <<>>]
    /\ callsSubscribed = [s \in Sessions |-> s \in DOMAIN sel]
    /\ conversations = [s \in Sessions |->
          IF s \in DOMAIN sel THEN LoadedConversations(s) ELSE {}]
    /\ userProfile = [s \in Sessions |-> s \in DOMAIN sel]
    /\ messages = [s \in Sessions |->
          IF s \in DOMAIN sel
          THEN SelectSeq(rows, LAMBDA m : m.conversation_id = sel[s]) ELSE <<>>]
    /\ isLoading = [s \in Sessions |-> FALSE]
    /\ editingMessage = [s \in Sessions |-> [id |-> 0, content |-> Null]]
    /\ messageToDelete = [s \in Sessions |-> 0]
    /\ incomingCall = [s \in Sessions |-> NoCall]
    /\ showVideoCall = [s \in Sessions |-> FALSE]
    /\ videoCallUrl = [s \in Sessions |-> 0]
    /\ insertHandlers = [s \in Sessions |-> {}]
    /\ sendReq = [s \in Sessions |-> NoReq]
    /\ reactReq = [s \in Sessions |-> NoReq]
    /\ editReq = [s \in Sessions |-> NoReq]
    /\ deleteReq = [s \in Sessions |-> NoReq]
    /\ seenReq = [s \in Sessions |-> {}]
    /\ fetchReq = [s \in Sessions |-> {}]
    /\ callLoop = [s \in Sessions |-> NoReq]
    /\ timers = [s \in Sessions |-> <<>>]
    /\ nextCall = 1
    /\ errors = [s \in Sessions |-> 0]
    /\ toasts = [s \in Sessions |-> [c \in 1..MaxCalls |-> 0]]
    /\ writeLog = [i \in 1..Len(rows) |-> LogEntry("insert", "a1", NoRow, rows[i], Null)]
    /\ callLog = {}
    /\ activeCall = [s \in Sessions |-> NoActive]
    /\ ops = budget
    /\ dbConversations = InitConversations
    /\ lastSeen = [u \in Users |-> 0]
    /\ clock = 0
    /\ storage = {}
    /\ typingSub = selectedConversation
    /\ typingEvents = [s \in Sessions |-> <<>>]
    /\ onlineUsers = [s \in Sessions |-> IF s \in DOMAIN sel THEN Users ELSE {}]
    /\ typingUsers = [s \in Sessions |-> {}]
    /\ typingTimeoutRef = [s \in Sessions |-> 0]
    /\ typingTimers = [s \in Sessions |-> {}]
    /\ uploadReq = [s \in Sessions |-> NoReq]
    /\ onlineReq = [s \in Sessions |-> {}]
    /\ createReq = [s \in Sessions |-> NoReq]
    /\ uploadLog = <<>>

\* ------------------------------------------------------------- specifications
\* a text message of A in the group conversation Y, as sendMessage inserts it
FirstRow == [id |-> 1, conversation_id |-> "Y", sender_id |-> "A", content |-> "hi",
             message_type |-> "text", reactions |-> <<>>, seen_by |-> <<>>,
             created_at |-> 0]

\* the postgres_changes handlers of a session
HandleEvents(s) ==
    \/ HandleInsert(s)
    \/ \E row \in insertHandlers[s] : FinishInsert(s, row)
    \/ HandleUpdate(s)
    \/ HandleDelete(s)

\* --- SpecSeen: A sends into the group Y; B and C, in their direct chats, open
\* Y and mark its messages seen
InitSeen == InitOf([s \in {"a1", "b1", "c1"} |->
                CASE s = "a1" -> "Y" [] s = "b1" -> "X" [] OTHER -> "Z"], <<>>, MaxSeenOps)

NextSeen ==
    \/ \E s \in {"b1", "c1"}, c \in Convs : SelectConversation(s, c)
    \/ \E s \in {"b1", "c1"} : \E r \in fetchReq[s] : FetchSelect(s, r)
    \/ \E s \in {"b1", "c1"} : \E r \in fetchReq[s] : FetchDone(s, r)
    \/ \E s \in {"b1", "c1"} : \E r \in seenReq[s] : MarkSeenSelect(s, r)
    \/ \E s \in {"b1", "c1"} : \E r \in seenReq[s], ok \in BOOLEAN : MarkSeenStep(s, r, ok)
    \/ SendMessageBegin("a1", "hi")
    \/ SendMessageCommit("a1", TRUE)
    \/ SendMessageDone("a1")
    \/ \E s \in {"b1", "c1"} : HandleInsert(s)
    \/ \E s \in {"b1", "c1"} : \E row \in insertHandlers[s] : FinishInsert(s, row)
    \/ \E s \in {"b1", "c1"} : HandleUpdate(s)

SpecSeen == InitSeen /\ [][NextSeen]_vars

\* --- SpecReact: A and B both show A's message and toggle reactions on it
InitReact == InitOf([s \in {"a1", "b1"} |-> "Y"], <<FirstRow>>, MaxReactOps)

NextReact ==
    \/ \E s \in {"a1", "b1"}, e \in Emojis : AddReactionBegin(s, 1, e)
    \/ \E s \in {"a1", "b1"} : AddReactionCommit(s, TRUE)
    \/ \E s \in {"a1", "b1"} : AddReactionDone(s)
    \/ \E s \in {"a1", "b1"} : HandleUpdate(s)

SpecReact == InitReact /\ [][NextReact]_vars

\* --- SpecMsg: A and B in the group Y send, edit, delete and react; any write
\* may be refused by the database
InitMsg == InitOf([s \in {"a1", "b1"} |-> "Y"], <<>>, MaxMsgOps)

NextMsg ==
    \/ \E s \in {"a1", "b1"} : SendMessageBegin(s, "hi")
    \/ \E s \in {"a1", "b1"}, ok \in BOOLEAN : SendMessageCommit(s, ok)
    \/ \E s \in {"a1", "b1"} : SendMessageDone(s)
    \/ \E id \in 1..MaxMsgs, e \in Emojis : AddReactionBegin("a1", id, e)
    \/ \E ok \in BOOLEAN : AddReactionCommit("a1", ok)
    \/ AddReactionDone("a1")
    \/ \E id \in 1..MaxMsgs : StartEditMessage("a1", id, "ed")
    \/ SaveEditMessageBegin("a1")
    \/ \E ok \in BOOLEAN : SaveEditMessageCommit("a1", ok)
    \/ SaveEditMessageDone("a1")
    \/ \E id \in 1..MaxMsgs : SetMessageToDelete("b1", id)
    \/ ConfirmDeleteMessageBegin("b1")
    \/ \E ok \in BOOLEAN : ConfirmDeleteMessageCommit("b1", ok)
    \/ ConfirmDeleteMessageDone("b1")
    \/ \E s \in {"a1", "b1"} : HandleEvents(s)

SpecMsg == InitMsg /\ [][NextMsg]_vars

\* --- SpecCall: A and both sessions of B in the direct chat X, C in the
\* direct chat Z
CallSessions == {"a1", "b1", "b2", "c1"}
InitCall == InitOf([s \in CallSessions |-> IF s = "c1" THEN "Z" ELSE "X"], <<>>,
                   MaxCallOps)

NextCall ==
    \/ \E s \in CallSessions, c \in Convs \cup {Null} : SelectConversation(s, c)
    \/ \E s \in CallSessions : StartVideoCall(s)
    \/ \E s \in CallSessions : CallLoopSend(s)
    \/ \E s \in CallSessions : CallLoopSettle(s)
    \/ \E s \in CallSessions, ok \in BOOLEAN : StartVideoCallInsert(s, ok)
    \/ \E s \in CallSessions : ReceiveIncomingCall(s)
    \/ \E s \in CallSessions : ReceiveCallEnded(s)
    \/ \E s \in CallSessions : TimerFire(s)
    \/ \E s \in CallSessions : AcceptCall(s)
    \/ \E s \in CallSessions : DeclineCall(s)
    \/ \E s \in CallSessions : EndCall(s)
    \/ \E s \in CallSessions : EndCallFinish(s)

SpecCall == InitCall /\ [][NextCall]_vars

\* --- SpecInvite: A starts calls in the group Y, in the direct chat X and in
\* its one-member group W; both sessions of B and the session of C receive
InviteCallers == {"a1"}
InitInvite == InitOf([s \in Sessions |->
                  CASE s = "a1" -> "Y" [] s = "b1" -> "X" [] OTHER -> "Z"], <<>>,
                  MaxInviteOps)

NextInvite ==
    \/ \E c \in Convs : SelectConversation("a1", c)
    \/ \E s \in InviteCallers : StartVideoCall(s)
    \/ \E s \in InviteCallers : CallLoopSend(s)
    \/ \E s \in InviteCallers : CallLoopSettle(s)
    \/ \E s \in InviteCallers, ok \in BOOLEAN : StartVideoCallInsert(s, ok)
    \/ \E s \in Sessions : ReceiveIncomingCall(s)
    \/ \E s \in Sessions : TimerFire(s)

SpecInvite == InitInvite /\ [][NextInvite]_vars

\* --- SpecMember: members and non-members submit inserts and reaction updates;
\* A and B show the direct chat X, C shows Z
InitMember == InitOf([s \in {"a1", "b1", "c1"} |-> IF s = "c1" THEN "Z" ELSE "X"],
                     <<>>, MaxMemberOps)

NextMember ==
    \/ \E s \in {"a1", "c1"}, conv \in {"X", "Z"} : SubmitInsert(s, conv)
    \/ \E s \in {"a1", "c1"}, id \in 1..MaxMsgs : SubmitReaction(s, id, "heart")
    \/ \E s \in {"a1", "b1", "c1"} : HandleInsert(s)
    \/ \E s \in {"a1", "b1", "c1"} : \E row \in insertHandlers[s] : FinishInsert(s, row)
    \/ \E s \in {"a1", "b1", "c1"} : HandleUpdate(s)

SpecMember == InitMember /\ [][NextMember]_vars

\* --- SpecUpload: A chooses files of several types and sizes in the direct chat
\* X, which B shows too
InitUpload == InitOf([s \in {"a1", "b1"} |-> "X"], <<>>, MaxUploadOps)

NextUpload ==
    \/ \E file \in Files : UploadImage("a1", file)
    \/ UploadPresence("a1")
    \/ \E ok \in BOOLEAN : UploadStore("a1", ok)
    \/ \E ok \in BOOLEAN : UploadInsert("a1", ok)
    \/ UploadDone("a1")
    \/ \E s \in {"a1", "b1"} : HandleInsert(s)
    \/ \E s \in {"a1", "b1"} : \E row \in insertHandlers[s] : FinishInsert(s, row)

SpecUpload == InitUpload /\ [][NextUpload]_vars

\* --- SpecPresence: A and B are open in X, time passes, A may send messages,
\* which updates its presence
InitPresence == InitOf([s \in {"a1", "b1"} |-> "X"], <<>>, MaxPresenceOps)

NextPresence ==
    \/ Tick
    \/ SendMessageBegin("a1", "hi")
    \/ SendMessageCommit("a1", TRUE)
    \/ SendMessageDone("a1")
    \/ \E s \in {"a1", "b1"} : \E r \in onlineReq[s] : FetchOnlineBegin(s, r)
    \/ \E s \in {"a1", "b1"} : \E r \in onlineReq[s] : FetchOnlineSelect(s, r)
    \/ \E s \in {"a1", "b1"} : \E r \in onlineReq[s] : FetchOnlineDone(s, r)

SpecPresence == InitPresence /\ [][NextPresence]_vars

\* --- SpecTyping: A types in the direct chat X, where b1 is, and in the group
\* Y, where B's second session and C are, and sends a message
InitTyping ==
    InitOf([s \in Sessions |-> IF s \in {"a1", "b1"} THEN "X" ELSE "Y"], <<>>, MaxTypingOps)

NextTyping ==
    \/ HandleInputChange("a1")
    \/ \E tm \in typingTimers["a1"] : TypingTimeout("a1", tm)
    \/ \E s \in Sessions : HandleTyping(s)
    \/ \E c \in {"X", "Y"} : SelectConversation("a1", c)
    \/ SendMessageBegin("a1", "hi")
    \/ \E ok \in BOOLEAN : SendMessageCommit("a1", ok)
    \/ SendMessageDone("a1")

SpecTyping == InitTyping /\ [][NextTyping]_vars

\* --- SpecProfile: B opens the page in b1 while C, in the direct chat Z, types;
\* the profile and the conversations of b1 load in either order, then B
\* switches between its conversations
InitProfile == InitOf([s \in {"c1"} |-> "Z"], <<>>, MaxTypingOps)

NextProfile ==
    \/ Mount("b1")
    \/ FetchUserProfile("b1")
    \/ FetchConversationsSet("b1")
    \/ \E c \in Convs : SelectConversation("b1", c)
    \/ HandleInputChange("c1")
    \/ \E tm \in typingTimers["c1"] : TypingTimeout("c1", tm)
    \/ \E s \in {"b1", "c1"} : HandleTyping(s)
    \/ \E s \in {"b1", "c1"} : \E r \in onlineReq[s] : FetchOnlineBegin(s, r)
    \/ \E s \in {"b1", "c1"} : \E r \in onlineReq[s] : FetchOnlineSelect(s, r)
    \/ \E s \in {"b1", "c1"} : \E r \in onlineReq[s] : FetchOnlineDone(s, r)

SpecProfile == InitProfile /\ [][NextProfile]_vars

\* --- SpecCreate: A or C starts a direct chat with a user found by the search
\* and sends into the conversation it has open; either insert may be refused
InitCreate == InitOf([s \in {"a1", "b1", "c1"} |-> IF s = "c1" THEN "Z" ELSE "X"],
                     <<>>, MaxCreateOps)

NextCreate ==
    \/ \E s \in {"a1", "c1"}, u \in Users : CreateConversationWithUser(s, u)
    \/ \E s \in {"a1", "c1"}, ok \in BOOLEAN : CreateConversationRow(s, ok)
    \/ \E s \in {"a1", "c1"}, ok \in BOOLEAN : CreateParticipants(s, ok)
    \/ \E s \in {"a1", "c1"} : CreateConversationDone(s)
    \/ \E s \in {"a1", "c1"} : \E r \in fetchReq[s] : FetchSelect(s, r)
    \/ \E s \in {"a1", "c1"} : \E r \in fetchReq[s] : FetchDone(s, r)
    \/ \E s \in {"a1", "c1"} : SendMessageBegin(s, "hi")
    \/ \E s \in {"a1", "c1"} : SendMessageCommit(s, TRUE)
    \/ \E s \in {"a1", "c1"} : SendMessageDone(s)

SpecCreate == InitCreate /\ [][NextCreate]_vars

\* --- SpecSeenBy: A's message is in the group Y; A and both sessions of B open
\* Y, so all three run markMessagesAsSeen, a1 and b1 also fetchMessages, and B
\* sends
InitSeenBy == InitOf([s \in {"a1", "b1", "b2"} |-> "X"], <<FirstRow>>, MaxSeenOps)

NextSeenBy ==
    \/ \E s \in {"a1", "b1", "b2"} : SelectConversation(s, "Y")
    \/ \E s \in {"a1", "b1"} : \E r \in fetchReq[s] : FetchSelect(s, r)
    \/ \E s \in {"a1", "b1"} : \E r \in fetchReq[s] : FetchDone(s, r)
    \/ \E s \in {"a1", "b1", "b2"} : \E r \in seenReq[s] : MarkSeenSelect(s, r)
    \/ \E s \in {"a1", "b1", "b2"} : \E r \in seenReq[s], ok \in BOOLEAN :
          MarkSeenStep(s, r, ok)
    \/ SendMessageBegin("b1", "hi")
    \/ SendMessageCommit("b1", TRUE)
    \/ SendMessageDone("b1")

SpecSeenBy == InitSeenBy /\ [][NextSeenBy]_vars

\* --- SpecDeliver: A sends into the group Y, which b1 has open and b2 opens;
\* an INSERT event may reach a session more than once
InitDeliver == InitOf([s \in {"a1", "b1", "b2"} |-> IF s = "b2" THEN "X" ELSE "Y"],
                      <<>>, MaxDeliverOps)

NextDeliver ==
    \/ SelectConversation("b2", "Y")
    \/ \E r \in fetchReq["b2"] : FetchSelect("b2", r)
    \/ \E r \in fetchReq["b2"] : FetchDone("b2", r)
    \/ \E content \in {"hi", "yo"} : SendMessageBegin("a1", content)
    \/ SendMessageCommit("a1", TRUE)
    \/ SendMessageCommitSameInstant("a1")
    \/ SendMessageDone("a1")
    \/ \E s \in {"b1", "b2"} : Redeliver(s)
    \/ \E s \in {"b1", "b2"} : HandleInsert(s)
    \/ \E s \in {"b1", "b2"} : \E row \in insertHandlers[s] : FinishInsert(s, row)

SpecDeliver == InitDeliver /\ [][NextDeliver]_vars

\* ------------------------------------------------------------- claims
SeenSet(row) == SeqToSet(row.seen_by)
ReactionSet(row) == SeqToSet(row.reactions)
SymDiff(S, T) == (S \ T) \cup (T \ S)

\* C1: MarkSeen is monotonic under every interleaving: a user id that is in a
\* stored message's seen_by is still in it after every later step (a
\* markMessagesAsSeen of another user, a reaction toggle, an edit), for as long
\* as the message exists.
C1_SeenByNeverShrinks ==
    [][\A i \in DOMAIN dbMessages : \A j \in DOMAIN dbMessages' :
          dbMessages[i].id = dbMessages'[j].id
              => SeenSet(dbMessages[i]) \subseteq SeenSet(dbMessages'[j])]_vars

\* two reaction writes that follow each other on one message
AdjacentReactionWrites(i) ==
    /\ i \in DOMAIN writeLog /\ (i + 1) \in DOMAIN writeLog
    /\ writeLog[i].kind = "reaction" /\ writeLog[i + 1].kind = "reaction"
    /\ writeLog[i].after.id # 0
    /\ writeLog[i + 1].after.id = writeLog[i].after.id

\* C2: no lost update: when a reaction toggle of one user is followed by a
\* toggle of another user on the same message, the list stored by the second
\* is the list stored by the first with the second user's toggle applied, so
\* that the stored list reflects both toggles.
C2_NoLostReactionUpdate ==
    \A i \in DOMAIN writeLog :
        (AdjacentReactionWrites(i)
            /\ UserOf(writeLog[i].by) # UserOf(writeLog[i + 1].by))
        => ReactionSet(writeLog[i + 1].after)
              = SymDiff(ReactionSet(writeLog[i].after), {writeLog[i + 1].arg})

\* C3: toggling the same (user, emoji) twice in a row on a message, with no
\* other write in between, leaves the stored reactions of the message as they
\* were before the first toggle (compared as a set of (emoji, user) pairs).
C3_ToggleTwiceRestores ==
    \A i \in DOMAIN writeLog :
        (AdjacentReactionWrites(i)
            /\ writeLog[i].by = writeLog[i + 1].by
            /\ writeLog[i].arg = writeLog[i + 1].arg)
        => ReactionSet(writeLog[i + 1].after) = ReactionSet(writeLog[i].before)

\* C4: in every session the messages of the list stand in commit order (ids
\* are given in commit order), whatever the interleaving of the sends and of
\* the INSERT handlers' asynchronous work.
C4_ListInCommitOrder ==
    \A s \in Sessions : \A i, j \in DOMAIN messages[s] :
        i < j => messages[s][i].id < messages[s][j].id

\* the versions of message id that the database has stored
Persisted(id) == {writeLog[k].after : k \in {n \in DOMAIN writeLog : writeLog[n].after.id = id}}

\* write requests of session s that the database refused
Refused(s) == {k \in DOMAIN writeLog : writeLog[k].kind = "failed" /\ writeLog[k].by = s}

\* failures that session s has reported (console.error) or is about to report
Reported(s) ==
    errors[s] + Cardinality({r \in {sendReq[s], reactReq[s], editReq[s], deleteReq[s]} :
                                r.stage = "error"})

\* C5: write-then-fan-out: whatever a session shows of a message (the message
\* itself, its content, its reactions, its seen_by) has been stored by the
\* database before, and every refused write is reported to its submitter.
C5_ShownIsPersisted ==
    /\ \A s \in Sessions : \A i \in DOMAIN messages[s] :
          /\ Persisted(messages[s][i].id) # {}
          /\ \E v \in Persisted(messages[s][i].id) : v.content = messages[s][i].content
          /\ \E v \in Persisted(messages[s][i].id) : v.reactions = messages[s][i].reactions
          /\ \E v \in Persisted(messages[s][i].id) : v.seen_by = messages[s][i].seen_by
    /\ \A s \in Sessions : Cardinality(Refused(s)) = Reported(s)

CallIds == 1..MaxCalls
Logged(kind, s, callId) ==
    \E e \in callLog : e.kind = kind /\ e.session = s /\ e.callId = callId

\* the invite of callId was answered in session s: accepted, declined, or
\* dismissed by a call_ended signal
Answered(s, callId) ==
    Logged("Accepted", s, callId) \/ Logged("Declined", s, callId) \/ Logged("Ended", s, callId)

\* C6: accept, decline and expiry race on one callId and only the first takes
\* effect: for a target user and a call, at most one of accepted, declined and
\* expired ever happens, so that an invite that expired is not accepted later
\* and an accepted one does not expire.
C6_FirstResolutionWins ==
    \A u \in Users, c \in CallIds :
        Cardinality({k \in {"Accepted", "Declined", "Expired"} :
                        \E s \in Sessions : UserOf(s) = u /\ Logged(k, s, c)}) <= 1

\* C7: every invite that is neither accepted, declined nor ended when its 30 s
\* are over expires: the target gets the missed-call notification of that call
\* and the invite is no longer pending, also when a second invite arrived
\* while the first was pending.
C7_UnansweredInviteExpires ==
    \A s \in Sessions, c \in CallIds :
        (Logged("TimerFired", s, c) /\ ~Answered(s, c))
        => (toasts[s][c] >= 1 /\ incomingCall[s].callId # c)

\* C8: the timer fires at most once per invite: no missed-call notification
\* for an invite that was accepted, declined or ended, exactly one for an
\* invite left unanswered until its 30 s are over.
C8_TimerFiresOnce ==
    \A s \in Sessions, c \in CallIds :
        /\ Answered(s, c) => toasts[s][c] = 0
        /\ (Logged("TimerFired", s, c) /\ ~Answered(s, c)) => toasts[s][c] = 1

\* C9: when a target declines an invite, a call_ended event is sent to every
\* other participant of the invite's conversation (the caller among them), and
\* the invite is no longer pending.
C9_DeclineNotifiesOthers ==
    \A e \in callLog :
        e.kind = "Declined"
        => /\ \A u \in participants[e.conv] \ {UserOf(e.session)} :
                 \E x \in callLog :
                     /\ x.kind = "call_ended" /\ x.session = e.session
                     /\ x.conv = e.conv /\ u \in x.to
           /\ incomingCall[e.session].callId # e.callId

\* C10: endCall sends call_ended to every other participant of the
\* conversation in which the call was started, whatever conversation is
\* selected, and then clears the ender's call state (video closed, room URL
\* empty, no pending invite).
C10_EndCallReachesOriginators ==
    \A e \in callLog :
        e.kind = "EndCall"
        => /\ e.to = participants[e.conv] \ {UserOf(e.session)}
           /\ e.cleared

\* incoming_call events of call c waiting in the queue of session t
QueuedInvites(t, c) ==
    {i \in DOMAIN callEvents[t] :
        callEvents[t][i].event = "incoming_call" /\ callEvents[t][i].payload.callId = c}

\* the payloads of call c that any session holds, queued or pending
InvitePayloads(c) ==
    UNION {{callEvents[t][i].payload : i \in QueuedInvites(t, c)} : t \in Sessions}
    \cup {incomingCall[t] : t \in {x \in Sessions : incomingCall[x].callId = c}}

\* the users that the send loop of call c has sent incoming_call to
InviteTargets(c) == UNION {e.to : e \in {x \in callLog : x.kind = "incoming_call" /\ x.callId = c}}

\* C11: an invite pushes one incoming_call event, with one and the same
\* callId, room and conversation, to every other member of the conversation
\* and to nobody else; no session gets a pending invite of its own user; a call
\* in a conversation without another member is refused and sends nothing.
C11_InviteFanout ==
    /\ \A c \in CallIds :
          /\ Cardinality(InvitePayloads(c)) <= 1
          /\ \A pl \in InvitePayloads(c) :
                InviteTargets(c) \subseteq participants[pl.conversationId] \ {pl.caller}
          /\ \A t \in Sessions :
                /\ Cardinality(QueuedInvites(t, c))
                      + (IF Logged("Invited", t, c) THEN 1 ELSE 0)
                   = (IF UserOf(t) \in InviteTargets(c) THEN 1 ELSE 0)
                /\ \A i \in QueuedInvites(t, c) :
                      callEvents[t][i].payload.caller # UserOf(t)
    /\ \A s \in Sessions :
          /\ incomingCall[s] # NoCall => incomingCall[s].caller # UserOf(s)
          /\ (callLoop[s].stage = "sending" /\ callLoop[s].event = "incoming_call"
                  /\ callLoop[s].rest = <<>>)
             => /\ callLoop[s].sent
                      = participants[callLoop[s].payload.conversationId] \ {UserOf(s)}
                /\ InviteTargets(callLoop[s].payload.callId) = callLoop[s].sent
    /\ \A e \in callLog :
          e.kind = "Refused"
          => /\ participants[e.conv] \ {UserOf(e.session)} = {}
             /\ ~\E x \in callLog : x.kind = "incoming_call" /\ x.conv = e.conv
             /\ ~\E i \in DOMAIN dbMessages : dbMessages[i].conversation_id = e.conv

\* A's invite in the group Y has reached both sessions of B and the session of
\* C, and A's call in its one-member group W has been refused
C11_Witness ==
    /\ \E c \in CallIds : \A t \in {"b1", "b2", "c1"} :
          \E e \in callLog : e.kind = "Invited" /\ e.session = t /\ e.callId = c
                              /\ e.conv = "Y"
    /\ \E e \in callLog : e.kind = "Refused" /\ e.session = "a1" /\ e.conv = "W"

\* a row was written by members only: its sender and the users of its
\* reactions are members of its conversation
ByMembers(row) ==
    /\ row.sender_id \in participants[row.conversation_id]
    /\ \A i \in DOMAIN row.reactions :
          row.reactions[i].user_id \in participants[row.conversation_id]

\* the rows that are stored, on their way to a session, or shown by a session
RowsAnywhere ==
    SeqToSet(dbMessages)
    \cup UNION {{pgEvents[s][i].row : i \in DOMAIN pgEvents[s]} : s \in Sessions}
    \cup UNION {insertHandlers[s] : s \in Sessions}
    \cup UNION {SeqToSet(messages[s]) : s \in Sessions}

NotMemberRejections(s) ==
    {k \in DOMAIN writeLog : writeLog[k].kind = "failed" /\ writeLog[k].by = s
                               /\ writeLog[k].arg = "NotMember"}

C13_OnlyOwnerEditsDeletes ==
    \A k \in DOMAIN writeLog :
        (writeLog[k].kind \in {"edit", "delete"} /\ writeLog[k].before # NoRow)
        => UserOf(writeLog[k].by) = writeLog[k].before.sender_id

ImageRows == {i \in DOMAIN dbMessages : dbMessages[i].message_type = "image"}
Chosen(outcome) == {k \in DOMAIN uploadLog : uploadLog[k].outcome = outcome}

\* C14: a file of more than 10 MiB (10 * 1024 * 1024 bytes), or of a content
\* type that is not an image type, is rejected before any side effect: no
\* object is uploaded, no message is created or fanned out, the loading flag is
\* not left set; a file of an image type of at most 10 MiB, exactly 10 MiB
\* included, is accepted.
C14_ImageLimit ==
    /\ \A k \in DOMAIN uploadLog :
          uploadLog[k].outcome = "rejected"
          <=> (uploadLog[k].file.size > 10485760
                 \/ ~(Len(uploadLog[k].file.type) >= 6
                       /\ SubSeq(uploadLog[k].file.type, 1, 6) = ImagePrefix))
    /\ \A o \in storage :
          /\ o.name \in Chosen("accepted")
          /\ uploadLog[o.name].file = o.file
    /\ Cardinality(ImageRows) <= Cardinality(storage)
    /\ \A s \in Sessions :
          /\ Cardinality({i \in DOMAIN pgEvents[s] : pgEvents[s][i].row.message_type = "image"})
               + Cardinality({r \in insertHandlers[s] : r.message_type = "image"})
               + Cardinality({i \in DOMAIN messages[s] : messages[s][i].message_type = "image"})
             <= Cardinality(ImageRows)
          /\ isLoading[s] => (uploadReq[s] # NoReq \/ sendReq[s] # NoReq)
          /\ errors[s] >= Cardinality({k \in Chosen("rejected") : uploadLog[k].session = s})

\* an image of exactly 10 MiB has been stored and sent, and an image of one
\* byte more has been rejected
C14_Witness ==
    /\ \E o \in storage : o.file = [type |-> ImagePng, size |-> 10485760]
    /\ \E k \in Chosen("rejected") :
          uploadLog[k].file = [type |-> ImagePng, size |-> 10485761]
    /\ Cardinality(ImageRows) = 1
    /\ uploadReq["a1"] = NoReq

\* C15: a user is shown as online if and only if its last activity is at most
\* 5 minutes old at the time of the query: no session shows a user as online
\* whose last_seen is more than 5 minutes back, also when no profile has
\* changed since the session computed its online set.
C15_OnlineIsFresh ==
    \A s \in {x \in Sessions : callsSubscribed[x]} : \A u \in Users :
        u \in onlineUsers[s] => clock - lastSeen[u] <= 5

\* the sessions whose typing queue grows in this step
TypingReceivers == {t \in Sessions : Len(typingEvents'[t]) > Len(typingEvents[t])}

C17_TypingEnds ==
    /\ \A s \in Sessions : Cardinality(typingTimers[s]) <= 1
    /\ \A t \in Sessions : \A u \in typingUsers[t] :
          \/ \E s \in Sessions : UserOf(s) = u /\
                \E tm \in typingTimers[s] : tm.conv = selectedConversation[t]
          \/ \E i \in DOMAIN typingEvents[t] :
                typingEvents[t][i].user_id = u /\ ~typingEvents[t][i].is_typing

\* C18: every direct (non-group) conversation of the conversations table has
\* exactly 2 distinct members, in every state, also after the insert of its
\* participants failed.
C18_DirectHasTwoMembers ==
    \A row \in dbConversations :
        ~row.is_group => Cardinality(participants[row.id]) = 2

\* C19: no message's seen_by holds the id of the message's sender, and no
\* user id is in a seen_by twice, after any sends and any runs of
\* markMessagesAsSeen.
C19_SeenByWellFormed ==
    \A i \in DOMAIN dbMessages :
        /\ dbMessages[i].sender_id \notin SeqToSet(dbMessages[i].seen_by)
        /\ Cardinality(SeqToSet(dbMessages[i].seen_by)) = Len(dbMessages[i].seen_by)

\* the sender and both sessions of B have run markMessagesAsSeen on A's message
\* to the end, and both sessions of B wrote its seen_by
C19_Witness ==
    /\ \A s \in {"a1", "b1", "b2"} : selectedConversation[s] = "Y" /\ seenReq[s] = {}
    /\ \A s \in {"b1", "b2"} : \E i \in DOMAIN writeLog :
          writeLog[i].kind = "seen" /\ writeLog[i].by = s /\ writeLog[i].after.id = 1
    /\ RowOf(1).seen_by = <<"B">>

Backfills == UNION {{r.rows : r \in {x \in fetchReq[s] : x.stage = "profiles"}} :
                    s \in Sessions}

\* C21: every sequence returned by fetchMessages is strictly increasing in
\* commit order (the ids are given in commit order), and two fetches that
\* return the same messages return them in the same order, also when two
\* messages carry the same created_at.
C21_BackfillInCommitOrder ==
    /\ \A q \in Backfills : \A i, j \in DOMAIN q : i < j => q[i].id < q[j].id
    /\ \A q1, q2 \in Backfills : SeqToSet(q1) = SeqToSet(q2) => q1 = q2

\* the result of the select that fetchMessages of session s gets in this step
NewBackfills(s) == {r \in fetchReq'[s] \ fetchReq[s] : r.stage = "profiles"}

\* B has written the seen_by of message id
MarkedByB(id) ==
    \E i \in DOMAIN writeLog :
        writeLog[i].kind = "seen" /\ UserOf(writeLog[i].by) = "B" /\ writeLog[i].after.id = id

\* C22: after A sent "hi" into a conversation shared with B, a backfill of B
\* for it holds exactly one message of sender A, with that content and with an
\* empty seen_by as long as B has not marked it; once B's markMessagesAsSeen has
\* written the message, every later backfill of A shows seen_by = {B} for it.
C22_SendSeenScenario ==
    [][/\ \A s \in {"b1", "b2"} : \A r \in NewBackfills(s) : r.conv = "Y" =>
             /\ Len(SelectSeq(r.rows, LAMBDA m : m.sender_id = "A")) = 1
             /\ \A i \in DOMAIN r.rows : r.rows[i].sender_id = "A" =>
                   /\ r.rows[i].id = 1 /\ r.rows[i].content = "hi"
                   /\ ~MarkedByB(1) => r.rows[i].seen_by = <<>>
       /\ \A r \in NewBackfills("a1") : (r.conv = "Y" /\ MarkedByB(1)) =>
             \E i \in DOMAIN r.rows : r.rows[i].id = 1 /\ r.rows[i].seen_by = <<"B">>]_vars

\* B has marked A's message and A's list, fetched afterwards, shows it as seen
\* by B
C22_Witness ==
    /\ MarkedByB(1) /\ seenReq["b1"] = {}
    /\ selectedConversation["a1"] = "Y" /\ fetchReq["a1"] = {}
    /\ HasMsg(messages["a1"], 1) /\ MsgOf(messages["a1"], 1).seen_by = <<"B">>

\* C23: when an invite of a call expired unanswered at a target after its
\* 30 s, the caller of that call has the missed-call notification of that
\* callId.
C23_CallerGetsMissedCall ==
    \A s \in Sessions, c \in CallIds :
        Logged("Expired", s, c)
        => \E t \in Sessions : Logged("incoming_call", t, c) /\ toasts[t][c] >= 1

\* C24: a deleted message stays in the store as a tombstone: its id is still
\* there after the delete, with the content cleared.
C24_DeleteLeavesTombstone ==
    \A i \in DOMAIN writeLog :
        (writeLog[i].kind = "delete" /\ writeLog[i].before # NoRow)
        => /\ HasRow(writeLog[i].before.id)
           /\ RowOf(writeLog[i].before.id).content = Null

\* C25: the pushes of one fan-out are independent: while the push to one
\* participant is not settled, no other participant is waiting for its push
\* of the same event (incoming_call or call_ended).
C25_FanoutIndependent ==
    \A s \in Sessions : callLoop[s].stage = "awaiting" => Len(callLoop[s].rest) <= 1

\* no fetch, no INSERT handler and no event of the session is in flight
Settled(s) == fetchReq[s] = {} /\ insertHandlers[s] = {} /\ pgEvents[s] = <<>>

\* C26: once the requests in flight have settled, the list of a session holds
\* only messages of the conversation that is selected: a fetch or an event
\* handler started for a conversation selected before never puts that
\* conversation's messages into the list.
C26_ListOfSelectedConversation ==
    \A s \in Sessions : (Settled(s) /\ selectedConversation[s] # Null) =>
        \A i \in DOMAIN messages[s] :
            messages[s][i].conversation_id = selectedConversation[s]

\* C27: no message is missed by an open session: once its requests in flight
\* have settled, every message committed to the selected conversation is in
\* the session's list, also a message that was delivered live before the
\* result of the initial fetch replaced the list.
C27_NoMessageMissed ==
    \A s \in Sessions : (Settled(s) /\ selectedConversation[s] # Null) =>
        \A i \in DOMAIN dbMessages :
            dbMessages[i].conversation_id = selectedConversation[s]
            => HasMsg(messages[s], dbMessages[i].id)

\* C28: a call_ended event only affects the call it belongs to: a call_ended
\* sent by a user who is not a participant of the conversation of a pending
\* invite leaves that invite pending, and one sent by a user who is not a
\* participant of the conversation of the open video call leaves it open.
C28_CallEndedOnlyItsCall ==
    [][\A s \in Sessions :
          (/\ callEvents[s] # <<>> /\ Head(callEvents[s]).event = "call_ended"
           /\ callEvents'[s] = Tail(callEvents[s]))
          => LET ender == Head(callEvents[s]).payload.caller IN
             /\ (/\ incomingCall[s] # NoCall
                 /\ ender \notin participants[incomingCall[s].conversationId])
                   => incomingCall'[s] = incomingCall[s]
             /\ (/\ activeCall[s] # NoActive
                 /\ ender \notin participants[activeCall[s].conv])
                   => showVideoCall'[s] = showVideoCall[s]]_vars

\* C29: once a conversation is selected and the user profile is loaded, in
\* either order, the session is subscribed to the typing channel of the
\* selected conversation; and the typing-users set of a session holds only
\* participants of its selected conversation, none left from a conversation
\* selected before.
C29_TypingFollowsSelection ==
    \A s \in Sessions :
        /\ (selectedConversation[s] # Null /\ userProfile[s])
              => typingSub[s] = selectedConversation[s]
        /\ selectedConversation[s] # Null
              => typingUsers[s] \subseteq participants[selectedConversation[s]]

\* session s has asked the database to add its user to seen_by of message id
\* (the request may have been refused, or overwritten since)
MarkRequested(s, id) ==
    \E k \in DOMAIN writeLog :
        /\ writeLog[k].by = s
        /\ \/ writeLog[k].kind = "seen" /\ writeLog[k].after.id = id
           \/ writeLog[k].kind = "failed" /\ writeLog[k].arg = "seen"

\* C30: every message of another sender shown in the open conversation of a
\* session is marked seen by its user, also when it arrived through the live
\* subscription after the conversation was opened: once nothing is in flight
\* at the session, the stored seen_by of the message holds the user, or the
\* session has at least requested that write.
C30_ShownIsMarkedSeen ==
    \A s \in Sessions :
        (Settled(s) /\ seenReq[s] = {} /\ selectedConversation[s] # Null) =>
            \A i \in DOMAIN messages[s] :
                (/\ messages[s][i].sender_id # UserOf(s)
                 /\ messages[s][i].conversation_id = selectedConversation[s]
                 /\ HasRow(messages[s][i].id))
                => \/ UserOf(s) \in SeqToSet(RowOf(messages[s][i].id).seen_by)
                   \/ MarkRequested(s, messages[s][i].id)

====
